---- MODULE Spec2Model ----
(***************************************************************************)
(* rusty_pizza_server: the Money value type, the per-participant Meals     *)
(* ledger and the Order aggregate, as a state machine.                     *)
(*                                                                         *)
(* Money holds its cents in a u32.  TLC's integers are 32-bit signed, so a *)
(* u32 is kept as two 16-bit limbs [hi, lo] (value = hi * 65536 + lo) and  *)
(* the arithmetic is done limb by limb, at the width of the code.          *)
(*                                                                         *)
(* Rust's `+`, `-` and `*` on u32 panic on overflow when the build has     *)
(* overflow checks (cargo's dev and test profiles) and wrap modulo 2^32    *)
(* when it has not (cargo's release profile).  The build is the variable   *)
(* overflow_checks, chosen in Init and never changed.                      *)
(***************************************************************************)
EXTENDS Integers, Sequences, FiniteSets

VARIABLES
    meals,            \* Order.meals: participant -> Meals ledger
    status,           \* Order.status
    manager,          \* Order.manager
    meal_factory,     \* Order.meal_factory: its IdProvider's next_id (a u32)
    issued,           \* history: the meal ids the order's factory has handed out
    ledger,           \* a Meals ledger used on its own
    ledger_factory,   \* the MealFactory feeding that ledger: next_id (a u32)
    factory_base,     \* history: the id that factory was constructed to start by
    factory_issued,   \* history: the ids that factory has handed out, in order
    created,          \* history: the meals its create_meal has returned, in order
    lhs,              \* Money::new arguments [euros, cents] of the left operand
    rhs,              \* Money::new arguments [euros, cents] of the right operand
    factor,           \* the scalar a Money is multiplied with: [width, value]
    overflow_checks,  \* TRUE: overflow panics; FALSE: overflow wraps
    builder,          \* a MealBuilder
    moved,            \* TRUE once that builder was moved into a call of meal
    built,            \* the Meal that builder was turned into, NoMeal before
    special_issued,   \* history: the special ids handed out for that meal
    result            \* what the last call returned

vars == <<meals, status, manager, meal_factory, issued, ledger, ledger_factory,
          factory_base, factory_issued, created, lhs, rhs, factor, overflow_checks, builder, moved,
          built, special_issued, result>>

(***************************************************************************)
(* u32 arithmetic on 16-bit limbs                                          *)
(***************************************************************************)
Base == 65536

\* The u32 with value n, for 0 <= n < 2^31.
U32(n) == [hi |-> n \div Base, lo |-> n % Base]

U32Max == [hi |-> Base - 1, lo |-> Base - 1]

\* The outcome of an operation that panicked: no u32 has negative limbs.
Panic == [hi |-> -1, lo |-> -1]

U32Lt(a, b) == a.hi < b.hi \/ (a.hi = b.hi /\ a.lo < b.lo)

\* What the build makes of an arithmetic result: `val` is the result modulo
\* 2^32 and `ovf` says whether the exact result was outside 0 .. 2^32 - 1.
Overflowing(ovf, val) == IF ovf /\ overflow_checks THEN Panic ELSE val

U32Add(a, b) ==
    IF a = Panic \/ b = Panic THEN Panic
    ELSE LET lo == a.lo + b.lo
             hi == a.hi + b.hi + (lo \div Base)
         IN  Overflowing(hi >= Base, [hi |-> hi % Base, lo |-> lo % Base])

U32Sub(a, b) ==
    IF a = Panic \/ b = Panic THEN Panic
    ELSE LET lo == a.lo - b.lo
             borrow == IF lo < 0 THEN 1 ELSE 0
             hi == a.hi - b.hi - borrow
         IN  Overflowing(hi < 0, [hi |-> (hi + Base) % Base, lo |-> (lo + Base) % Base])

\* a * k for a small factor k (k <= 255), as in `euros * 100`.
U32MulSmall(a, k) ==
    IF a = Panic THEN Panic
    ELSE LET lo == a.lo * k
             hi == a.hi * k + (lo \div Base)
         IN  Overflowing(hi >= Base, [hi |-> hi % Base, lo |-> lo % Base])

\* x * y for two 16-bit limbs, as a u32: y is split in two bytes so that no
\* intermediate product leaves the checker's integers.
MulLimb(x, y) ==
    LET p1 == x * (y \div 256)
        p0 == x * (y % 256)
        lo == (p1 % 256) * 256 + (p0 % Base)
    IN  [hi |-> (p1 \div 256) + (p0 \div Base) + (lo \div Base), lo |-> lo % Base]

\* a * b on u32: the low 32 bits of the product, and whether it overflowed.
U32Mul(a, b) ==
    IF a = Panic \/ b = Panic THEN Panic
    ELSE LET ll == MulLimb(a.lo, b.lo)
             hl == MulLimb(a.hi, b.lo)
             lh == MulLimb(a.lo, b.hi)
             hi == ll.hi + hl.lo + lh.lo
         IN  Overflowing((a.hi > 0 /\ b.hi > 0) \/ hl.hi > 0 \/ lh.hi > 0 \/ hi >= Base,
                         [hi |-> hi % Base, lo |-> ll.lo])

(***************************************************************************)
(* util/money.rs: Money { cents: u32 }.  A Money is its cents.             *)
(***************************************************************************)
\* Money::new(euros: u32, cents: u8)
Money_new(euros, cents) == U32Add(U32MulSmall(euros, 100), U32(cents))

\* Money::zero()
Money_zero == U32(0)

\* self.cents / 100, on the limbs: 65536 = 655 * 100 + 36.
Money_get_euros(m) == m.hi * 655 + ((m.hi * 36 + m.lo) \div 100)

\* (self.cents % 100) as u8
Money_get_cents(m) == (m.hi * 36 + m.lo) % 100

Money_get_total_cents(m) == m

\* #[derive(PartialEq)]: two Money are equal when their cents are.
Money_eq(a, b) == a = b

\* impl Add / AddAssign for Money
Money_add(a, b) == U32Add(a, b)

\* A faulty Money subtraction: the body of `add`, pasted.
Money_sub_as_add(a, b) == U32Add(a, b)

\* impl Sub for Money
Money_sub(a, b) == U32Sub(a, b)

\* impl SubAssign for Money: the value of *self afterwards.
Money_sub_assign(a, b) == U32Sub(a, b)

\* Money's ordering: by cents.
Money_gt(a, b) == U32Lt(b, a)

Money_lt(a, b) == U32Lt(a, b)

Money_ge(a, b) == ~ U32Lt(a, b)

\* impl Mul<u8> for Money: self.cents * other as u32
Money_mul_u8(a, other) == U32Mul(a, other)

\* impl Mul<Money> for u8: other * self
u8_mul_Money(n, other) == Money_mul_u8(other, n)

\* impl Mul<u16> for Money
Money_mul_u16(a, other) == U32Mul(a, other)

\* impl Mul<Money> for u16
u16_mul_Money(n, other) == Money_mul_u16(other, n)

\* impl Mul<u32> for Money
Money_mul_u32(a, other) == U32Mul(a, other)

\* impl Mul<Money> for u32
u32_mul_Money(n, other) == Money_mul_u32(other, n)

\* How `{}` writes an unsigned integer: its decimal digits, no padding.
RECURSIVE DisplayUnsigned(_)
DisplayUnsigned(n) ==
    LET digit == <<"0", "1", "2", "3", "4", "5", "6", "7", "8", "9">>[(n % 10) + 1]
    IN  IF n < 10 THEN <<digit>> ELSE DisplayUnsigned(n \div 10) \o <<digit>>

\* impl Display for Money: write!(f, "{},{}€", get_euros(), get_cents()),
\* as the sequence of characters written.
Money_fmt(m) ==
    DisplayUnsigned(Money_get_euros(m)) \o <<",">> \o DisplayUnsigned(Money_get_cents(m))
        \o <<"€">>

(***************************************************************************)
(* Hash maps: a map is a function on its key set.  `values()` visits the   *)
(* entries in an order the program does not fix: it differs from map to    *)
(* map and from run to run.  Traversals(S) are the orders in which the     *)
(* keys S can be visited; every call that iterates is given one of them.   *)
(***************************************************************************)
EmptyMap == [k \in {} |-> k]

MapInsert(f, k, v) == [x \in (DOMAIN f) \cup {k} |-> IF x = k THEN v ELSE f[x]]

MapRemove(f, k) == [x \in (DOMAIN f) \ {k} |-> f[x]]

Traversals(S) ==
    {keys \in [1..Cardinality(S) -> S] :
        \A i, j \in 1..Cardinality(S) : i # j => keys[i] # keys[j]}

(***************************************************************************)
(* util/id_provider.rs and order_model/meal.rs                             *)
(***************************************************************************)
IdProvider_new == U32(0)

IdProvider_start_by(starting_value) == starting_value

\* A faulty id provider: it hands out its id without advancing.
IdProvider_generate_next_stuck(next_id) == [id |-> next_id, next_id |-> next_id]

\* IdProvider::generate_next: the id handed out and the provider afterwards.
IdProvider_generate_next(next_id) == [id |-> next_id, next_id |-> U32Add(next_id, U32(1))]

MealFactory_new == IdProvider_new

MealFactory_start_by(starting_value) == IdProvider_start_by(starting_value)

Meal_new(id, meal_id, variety, price, specials, special_factory) ==
    [id |-> id, meal_id |-> meal_id, variety |-> variety, price |-> price,
     specials |-> specials, special_factory |-> special_factory]

\* The value standing for "no meal" in a result.
NoMeal == Meal_new(Panic, "", "", Panic, EmptyMap, IdProvider_new)

\* MealFactory::create_meal: the meal and the factory afterwards; the meal is
\* NoMeal when generating the id panicked.
MealFactory_create_meal(factory, meal_id, variety, price) ==
    LET g == IdProvider_generate_next(factory)
    IN  IF g.next_id = Panic
        THEN [meal |-> NoMeal, factory |-> factory]
        ELSE [meal |-> Meal_new(g.id, meal_id, variety, price, EmptyMap, IdProvider_new),
              factory |-> g.next_id]

Meal_get_id(meal) == meal.id

Meal_get_price(meal) == meal.price

(***************************************************************************)
(* order_model/special.rs, and the specials and the builder of meal.rs.    *)
(* An Option is [some, value].  A special factory is its IdProvider's      *)
(* next_id; it starts at 0 and the runs stay far below 2^32 specials.      *)
(***************************************************************************)
Some(v) == [some |-> TRUE, value |-> v]

NoneOf(v) == [some |-> FALSE, value |-> v]

Special_new(id, description) == [id |-> id, description |-> description]

Special_get_id(special) == special.id

\* Special::set_description
Special_set_description(special, description) == [special EXCEPT !.description = description]

\* The value standing for "no special" in a result.
NoSpecial == Special_new(Panic, "")

SpecialFactory_new == IdProvider_new

\* SpecialFactory::create_special: the special and the factory afterwards.
SpecialFactory_create_special(factory, description) ==
    LET g == IdProvider_generate_next(factory)
    IN  [special |-> Special_new(g.id, description), factory |-> g.next_id]

\* MealFactory::create_meal_with_specials
MealFactory_create_meal_with_specials(factory, meal_id, variety, price, specials, special_factory) ==
    LET g == IdProvider_generate_next(factory)
    IN  IF g.next_id = Panic
        THEN [meal |-> NoMeal, factory |-> factory]
        ELSE [meal |-> Meal_new(g.id, meal_id, variety, price, specials, special_factory),
              factory |-> g.next_id]

MealBuilder_new ==
    [meal_id |-> NoneOf(""), variety |-> NoneOf(""), price |-> NoneOf(Money_new(U32(0), 0)),
     specials |-> EmptyMap, special_factory |-> SpecialFactory_new]

MealBuilder_meal_id(b, meal_id) == [b EXCEPT !.meal_id = Some(meal_id)]

MealBuilder_variety(b, variety) == [b EXCEPT !.variety = Some(variety)]

\* MealBuilder::special
MealBuilder_special(b, description) ==
    LET c == SpecialFactory_create_special(b.special_factory, description)
        id == Special_get_id(c.special)
    IN  [b EXCEPT !.specials = MapInsert(b.specials, id, c.special),
                  !.special_factory = c.factory]

\* MealBuilder::specials: the specials are created in the order of the
\* descriptions and the map is extended with them.
RECURSIVE MealBuilder_specials(_, _)
MealBuilder_specials(b, descriptions) ==
    IF descriptions = <<>> THEN b
    ELSE MealBuilder_specials(MealBuilder_special(b, Head(descriptions)), Tail(descriptions))

MealBuilder_price(b, price) == [b EXCEPT !.price = Some(price)]

\* What a builder call that can panic leaves: whether it panicked, and the
\* builder afterwards (at the panic, the builder as far as the call had
\* changed it).
Outcome(panicked, b) == [panicked |-> panicked, builder |-> b]

\* MealBuilder::add_price: `old + price` is computed before self.price is
\* assigned, so that a panic leaves the builder as it was.
MealBuilder_add_price(b, price) ==
    IF b.price.some
    THEN LET sum == Money_add(b.price.value, price)
         IN  IF sum = Panic THEN Outcome(TRUE, b)
             ELSE Outcome(FALSE, [b EXCEPT !.price = Some(sum)])
    ELSE Outcome(FALSE, [b EXCEPT !.price = Some(price)])

\* A faulty diff_price: an overrun clamps the running price to zero.
MealBuilder_diff_price_clamping(b, price) ==
    IF b.price.some /\ Money_ge(b.price.value, price)
    THEN [tag |-> "Ok", money |-> Money_zero,
          builder |-> [b EXCEPT !.price = Some(Money_sub(b.price.value, price))]]
    ELSE [tag |-> "Ok", money |-> Money_zero,
          builder |-> [b EXCEPT !.price = Some(Money_zero)]]

\* MealBuilder::diff_price: Ok with the builder afterwards, or
\* Err(NegativePriceBuilded(amount)) with the builder as it was.
MealBuilder_diff_price(b, price) ==
    IF b.price.some /\ Money_ge(b.price.value, price)
    THEN LET d == Money_sub(b.price.value, price)
         IN  IF d = Panic THEN [tag |-> "Panic", money |-> Panic, builder |-> b]
             ELSE [tag |-> "Ok", money |-> Money_zero, builder |-> [b EXCEPT !.price = Some(d)]]
    ELSE IF b.price.some /\ Money_lt(b.price.value, price)
    THEN [tag |-> "NegativePriceBuilded",
          money |-> Money_sub(price, b.price.value), builder |-> b]
    ELSE IF ~ b.price.some
    THEN [tag |-> "NegativePriceBuilded", money |-> price, builder |-> b]
    ELSE [tag |-> "Panic", money |-> Panic, builder |-> b]

\* A faulty special_with_price: the price of the special replaces the
\* running price.
MealBuilder_special_with_price_setting(b, description, price) ==
    Outcome(FALSE, MealBuilder_price(MealBuilder_special(b, description), price))

\* MealBuilder::special_with_price: self.special(description).add_price(price);
\* when add_price panics the special has been added.
MealBuilder_special_with_price(b, description, price) ==
    MealBuilder_add_price(MealBuilder_special(b, description), price)

\* The loop of specials_with_prices over the zipped lists; it ends at the
\* first add_price that panics.
RECURSIVE MealBuilder_specials_with_prices_loop(_, _, _)
MealBuilder_specials_with_prices_loop(b, descriptions, prices) ==
    IF descriptions = <<>> \/ prices = <<>> THEN Outcome(FALSE, b)
    ELSE LET r == MealBuilder_add_price(MealBuilder_special(b, Head(descriptions)),
                                        Head(prices))
         IN  IF r.panicked THEN r
             ELSE MealBuilder_specials_with_prices_loop(r.builder, Tail(descriptions),
                                                        Tail(prices))

\* A faulty specials_with_prices: lists of different length are zipped up to
\* the shorter one.
MealBuilder_specials_with_prices_zipping(b, descriptions, prices) ==
    LET r == MealBuilder_specials_with_prices_loop(b, descriptions, prices)
    IN  [tag |-> IF r.panicked THEN "Panic" ELSE "Ok", count |-> 0, builder |-> r.builder]

\* MealBuilder::specials_with_prices: Ok with the builder afterwards,
\* Err(MoreSpecialsThanPrices(n)) / Err(MorePricesThanSpecials(n)) with the
\* builder as it was, or a panic with the builder as the loop left it.
MealBuilder_specials_with_prices(b, descriptions, prices) ==
    IF Len(descriptions) > Len(prices)
    THEN [tag |-> "MoreSpecialsThanPrices", count |-> Len(descriptions) - Len(prices),
          builder |-> b]
    ELSE IF Len(prices) > Len(descriptions)
    THEN [tag |-> "MorePricesThanSpecials", count |-> Len(prices) - Len(descriptions),
          builder |-> b]
    ELSE LET r == MealBuilder_specials_with_prices_loop(b, descriptions, prices)
         IN  [tag |-> IF r.panicked THEN "Panic" ELSE "Ok", count |-> 0,
              builder |-> r.builder]

\* MealBuilder::meal: the meal and the meal factory afterwards.
MealBuilder_meal(b, meal_factory_) ==
    MealFactory_create_meal_with_specials(meal_factory_,
        IF b.meal_id.some THEN b.meal_id.value ELSE "",
        IF b.variety.some THEN b.variety.value ELSE "",
        IF b.price.some THEN b.price.value ELSE Money_new(U32(0), 0),
        b.specials, b.special_factory)

\* A faulty add_special: the id is the number of specials the meal holds.
Meal_add_special_counting(meal, description) ==
    LET id == U32(Cardinality(DOMAIN meal.specials))
    IN  [special |-> Special_new(id, description),
         meal |-> [meal EXCEPT !.specials = MapInsert(meal.specials, id,
                                                      Special_new(id, description))]]

\* Meal::add_special: the special created and the meal afterwards.
Meal_add_special(meal, description) ==
    LET c == SpecialFactory_create_special(meal.special_factory, description)
        id == Special_get_id(c.special)
    IN  [special |-> c.special,
         meal |-> [meal EXCEPT !.specials = MapInsert(meal.specials, id, c.special),
                               !.special_factory = c.factory]]

\* A faulty remove_special: an absent id is answered with Ok.
Meal_remove_special_silent(meal, id) ==
    IF id \in DOMAIN meal.specials
    THEN [tag |-> "Ok", special |-> meal.specials[id],
          meal |-> [meal EXCEPT !.specials = MapRemove(meal.specials, id)]]
    ELSE [tag |-> "Ok", special |-> NoSpecial, meal |-> meal]

\* Meal::remove_special: Ok(special) or Err(NotFound), and the meal afterwards.
Meal_remove_special(meal, id) ==
    IF id \in DOMAIN meal.specials
    THEN [tag |-> "Ok", special |-> meal.specials[id],
          meal |-> [meal EXCEPT !.specials = MapRemove(meal.specials, id)]]
    ELSE [tag |-> "NotFound", special |-> NoSpecial, meal |-> meal]

(***************************************************************************)
(* order_model/meals.rs: the ledger of one participant                     *)
(***************************************************************************)
Meals_new(user) ==
    [meals |-> EmptyMap, owner |-> user, ready |-> FALSE,
     paid |-> Money_new(U32(0), 0), tip |-> Money_new(U32(0), 0)]

Meals_add_meal(l, meal) == [l EXCEPT !.meals = MapInsert(l.meals, Meal_get_id(meal), meal)]

Meals_get_owner(l) == l.owner

\* A faulty set_paid: the amount is added to what was paid before.
Meals_set_paid_accumulating(l, paid) == [l EXCEPT !.paid = Money_add(l.paid, paid)]

Meals_set_paid(l, paid) == [l EXCEPT !.paid = paid]

Meals_get_tip(l) == l.tip

Meals_set_tip(l, tip) == [l EXCEPT !.tip = tip]

RECURSIVE Meals_total_price_loop(_, _, _)
Meals_total_price_loop(ms, keys, total_price) ==
    IF keys = <<>> THEN total_price
    ELSE Meals_total_price_loop(ms, Tail(keys),
                                Money_add(total_price, Meal_get_price(ms[Head(keys)])))

\* A faulty total price: the sum starts from the tip.
Meals_calculate_total_price_from_tip(l, keys) ==
    Meals_total_price_loop(l.meals, keys, l.tip)

\* Meals::calculate_total_price, the meals visited in the order `keys`.
Meals_calculate_total_price(l, keys) ==
    Meals_total_price_loop(l.meals, keys, Money_new(U32(0), 0))

\* A Result<Money, _>: a panic inside the computation takes the whole call.
MoneyResult(tag, money) ==
    IF money = Panic THEN [tag |-> "Panic", money |-> Panic]
    ELSE [tag |-> tag, money |-> money]

\* A faulty calculate_change: it leaves the tip out of what is owed.
Meals_calculate_change_no_tip(l, keys) ==
    LET has_to_pay == Meals_calculate_total_price(l, keys)
    IN  IF has_to_pay = Panic THEN MoneyResult("Panic", Panic)
        ELSE IF U32Lt(Money_get_total_cents(l.paid), Money_get_total_cents(has_to_pay))
        THEN MoneyResult("Underpaid", Money_sub(has_to_pay, l.paid))
        ELSE MoneyResult("Ok", Money_sub(l.paid, has_to_pay))

\* Meals::calculate_change: Ok(change), Err(Underpaid(missing)) or a panic.
Meals_calculate_change(l, keys) ==
    LET has_to_pay == Money_add(Meals_calculate_total_price(l, keys), l.tip)
    IN  IF has_to_pay = Panic THEN MoneyResult("Panic", Panic)
        ELSE IF U32Lt(Money_get_total_cents(l.paid), Money_get_total_cents(has_to_pay))
        THEN MoneyResult("Underpaid", Money_sub(has_to_pay, l.paid))
        ELSE MoneyResult("Ok", Money_sub(l.paid, has_to_pay))

\* A faulty remove_meal: when the id is not held it drops every meal.
Meals_remove_meal_clearing(l, meal) ==
    IF Meal_get_id(meal) \in DOMAIN l.meals
    THEN [removed |-> TRUE,
          ledger |-> [l EXCEPT !.meals = MapRemove(l.meals, Meal_get_id(meal))]]
    ELSE [removed |-> FALSE, ledger |-> [l EXCEPT !.meals = EmptyMap]]

\* A faulty remove_meal_by_id: it returns the meal and leaves it in the ledger.
Meals_remove_meal_by_id_keeping(l, id) ==
    IF id \in DOMAIN l.meals
    THEN [removed |-> l.meals[id], ledger |-> l]
    ELSE [removed |-> NoMeal, ledger |-> l]

\* Meals::remove_meal: whether a meal was stored under the given meal's id,
\* and the ledger afterwards.
Meals_remove_meal(l, meal) ==
    IF Meal_get_id(meal) \in DOMAIN l.meals
    THEN [removed |-> TRUE,
          ledger |-> [l EXCEPT !.meals = MapRemove(l.meals, Meal_get_id(meal))]]
    ELSE [removed |-> FALSE, ledger |-> l]

\* Meals::remove_meal_by_id: the removed meal (NoMeal for None) and the ledger.
Meals_remove_meal_by_id(l, id) ==
    IF id \in DOMAIN l.meals
    THEN [removed |-> l.meals[id], ledger |-> [l EXCEPT !.meals = MapRemove(l.meals, id)]]
    ELSE [removed |-> NoMeal, ledger |-> l]

(***************************************************************************)
(* order_model/order.rs: the Order aggregate                               *)
(***************************************************************************)
\* Order::new: no participants, status Open, a fresh meal factory.
Order_new_meals == EmptyMap

Order_new_status == "Open"

\* A faulty add_user: a user already taking part keeps the ledger.
Order_add_user_keeping(ms, user) ==
    IF user \in DOMAIN ms THEN ms ELSE MapInsert(ms, user, Meals_new(user))

\* Order::add_user: a new empty ledger is stored under the user.
Order_add_user(ms, user) == MapInsert(ms, user, Meals_new(user))

\* A faulty add_meal_for_user: an unknown user silently gets a ledger.
Order_add_meal_for_user_lenient(ms, factory, user, meal_id, variety, price) ==
    LET c == MealFactory_create_meal(factory, meal_id, variety, price)
        l == IF user \in DOMAIN ms THEN ms[user] ELSE Meals_new(user)
    IN  IF c.meal = NoMeal
        THEN [tag |-> "Panic", meal |-> NoMeal, meals |-> ms, factory |-> factory]
        ELSE [tag |-> "Ok", meal |-> c.meal,
              meals |-> MapInsert(ms, user, Meals_add_meal(l, c.meal)),
              factory |-> c.factory]

\* Order::add_meal_for_user: Ok(meal) or Err(UserNotParticipating), with the
\* order's ledgers and meal factory afterwards.
Order_add_meal_for_user(ms, factory, user, meal_id, variety, price) ==
    IF user \in DOMAIN ms
    THEN LET c == MealFactory_create_meal(factory, meal_id, variety, price)
         IN  IF c.meal = NoMeal
             THEN [tag |-> "Panic", meal |-> NoMeal, meals |-> ms, factory |-> factory]
             ELSE [tag |-> "Ok", meal |-> c.meal,
                   meals |-> [ms EXCEPT ![user] = Meals_add_meal(ms[user], c.meal)],
                   factory |-> c.factory]
    ELSE [tag |-> "UserNotParticipating", meal |-> NoMeal, meals |-> ms, factory |-> factory]

\* Order::get_meals_for_user: whether it returns Some(ledger).
Order_get_meals_for_user(ms, user) == IF user \in DOMAIN ms THEN "Some" ELSE "None"

\* The orders in which one call on the order can visit its hash maps: the
\* ledgers in the order `users`, and the meals of the ledger of u in the
\* order meals[u].
Visits(ms) ==
    LET inner == UNION {Traversals(DOMAIN ms[u].meals) : u \in DOMAIN ms}
    IN  {[users |-> keys, meals |-> f] :
            keys \in Traversals(DOMAIN ms),
            f \in {g \in [DOMAIN ms -> inner] :
                      \A u \in DOMAIN ms : g[u] \in Traversals(DOMAIN ms[u].meals)}}

\* Order::calculate_total_price: `total_price += ...` over the ledgers.
RECURSIVE Order_total_price_loop(_, _, _, _)
Order_total_price_loop(ms, keys, total_price, inner) ==
    IF keys = <<>> THEN total_price
    ELSE Order_total_price_loop(ms, Tail(keys),
             Money_add(total_price,
                       Meals_calculate_total_price(ms[Head(keys)], inner[Head(keys)])),
             inner)

\* A faulty total price: only the first ledger visited is counted.
Order_calculate_total_price_first(ms, visit) ==
    LET keys == visit.users
    IN  Order_total_price_loop(ms, IF keys = <<>> THEN keys ELSE <<Head(keys)>>, Money_zero,
                               visit.meals)

Order_calculate_total_price(ms, visit) ==
    Order_total_price_loop(ms, visit.users, Money_zero, visit.meals)

\* Order::calculate_total_tip: `total_tip += single_order.get_tip()`.
RECURSIVE Order_total_tip_loop(_, _, _)
Order_total_tip_loop(ms, keys, total_tip) ==
    IF keys = <<>> THEN total_tip
    ELSE Order_total_tip_loop(ms, Tail(keys),
             Money_add(total_tip, Meals_get_tip(ms[Head(keys)])))

\* A faulty total tip: the tips are added to the total price.
Order_calculate_total_tip_on_price(ms, visit) ==
    Order_total_tip_loop(ms, visit.users, Order_calculate_total_price(ms, visit))

Order_calculate_total_tip(ms, visit) ==
    Order_total_tip_loop(ms, visit.users, Money_zero)

\* A faulty loop: an underpaying owner is not recorded in paid_less.
RECURSIVE Order_total_change_loop_no_owner(_, _, _, _)
Order_total_change_loop_no_owner(ms, keys, acc, inner) ==
    IF keys = <<>> THEN acc
    ELSE LET single_order == ms[Head(keys)]
             c == Meals_calculate_change(single_order, inner[Head(keys)])
             next == IF c.tag = "Panic" \/ acc.panicked
                     THEN [acc EXCEPT !.panicked = TRUE]
                     ELSE IF c.tag = "Ok"
                     THEN [acc EXCEPT !.total_change = Money_add(acc.total_change, c.money)]
                     ELSE [acc EXCEPT !.underpaid = Money_add(acc.underpaid, c.money)]
         IN  Order_total_change_loop_no_owner(ms, Tail(keys), next, inner)

\* A faulty loop: `=` where the code accumulates the change with `+=`.
RECURSIVE Order_total_change_loop_last_change(_, _, _, _)
Order_total_change_loop_last_change(ms, keys, acc, inner) ==
    IF keys = <<>> THEN acc
    ELSE LET single_order == ms[Head(keys)]
             c == Meals_calculate_change(single_order, inner[Head(keys)])
             next == IF c.tag = "Panic" \/ acc.panicked
                     THEN [acc EXCEPT !.panicked = TRUE]
                     ELSE IF c.tag = "Ok"
                     THEN [acc EXCEPT !.total_change = c.money]
                     ELSE [acc EXCEPT !.underpaid = Money_add(acc.underpaid, c.money),
                                      !.paid_less = acc.paid_less \cup
                                                       {Meals_get_owner(single_order)}]
         IN  Order_total_change_loop_last_change(ms, Tail(keys), next, inner)

\* A faulty loop: paid_less is overwritten with the owner instead of the
\* owner being inserted.
RECURSIVE Order_total_change_loop_last_owner(_, _, _, _)
Order_total_change_loop_last_owner(ms, keys, acc, inner) ==
    IF keys = <<>> THEN acc
    ELSE LET single_order == ms[Head(keys)]
             c == Meals_calculate_change(single_order, inner[Head(keys)])
             next == IF c.tag = "Panic" \/ acc.panicked
                     THEN [acc EXCEPT !.panicked = TRUE]
                     ELSE IF c.tag = "Ok"
                     THEN [acc EXCEPT !.total_change = Money_add(acc.total_change, c.money)]
                     ELSE [acc EXCEPT !.paid_less = {Meals_get_owner(single_order)},
                                      !.underpaid = Money_add(acc.underpaid, c.money)]
         IN  Order_total_change_loop_last_owner(ms, Tail(keys), next, inner)

\* The loop of calculate_total_change over the ledgers in `keys`.
RECURSIVE Order_total_change_loop(_, _, _, _)
Order_total_change_loop(ms, keys, acc, inner) ==
    IF keys = <<>> THEN acc
    ELSE LET single_order == ms[Head(keys)]
             c == Meals_calculate_change(single_order, inner[Head(keys)])
             next == IF c.tag = "Panic" \/ acc.panicked
                     THEN [acc EXCEPT !.panicked = TRUE]
                     ELSE IF c.tag = "Ok"
                     THEN [acc EXCEPT !.total_change = Money_add(acc.total_change, c.money)]
                     ELSE [acc EXCEPT !.paid_less = acc.paid_less \cup {Meals_get_owner(single_order)},
                                      !.underpaid = Money_add(acc.underpaid, c.money)]
         IN  Order_total_change_loop(ms, Tail(keys), next, inner)

\* A faulty decision: Ok as soon as the change covers what is missing.
Order_total_change_decide_covered(acc) ==
    IF acc.panicked \/ acc.total_change = Panic \/ acc.underpaid = Panic
    THEN [tag |-> "Panic", money |-> Panic, paid_less |-> {}]
    ELSE IF ~ U32Lt(acc.total_change, acc.underpaid)
    THEN [tag |-> "Ok", money |-> Money_sub(acc.total_change, acc.underpaid), paid_less |-> {}]
    ELSE [tag |-> "Underpaid", money |-> Money_sub(acc.underpaid, acc.total_change),
          paid_less |-> acc.paid_less]

\* A faulty decision: EnoughInTotal reports the change without taking what
\* is missing off it.
Order_total_change_decide_gross(acc) ==
    IF acc.panicked \/ acc.total_change = Panic \/ acc.underpaid = Panic
    THEN [tag |-> "Panic", money |-> Panic, paid_less |-> {}]
    ELSE IF Money_get_total_cents(acc.underpaid) = U32(0)
    THEN [tag |-> "Ok", money |-> acc.total_change, paid_less |-> {}]
    ELSE IF Money_gt(acc.total_change, acc.underpaid)
    THEN [tag |-> "EnoughInTotal", money |-> acc.total_change, paid_less |-> acc.paid_less]
    ELSE [tag |-> "Underpaid", money |-> Money_sub(acc.underpaid, acc.total_change),
          paid_less |-> acc.paid_less]

\* A faulty decision: `>=` where the code compares with `>`.
Order_total_change_decide_ge(acc) ==
    IF acc.panicked \/ acc.total_change = Panic \/ acc.underpaid = Panic
    THEN [tag |-> "Panic", money |-> Panic, paid_less |-> {}]
    ELSE IF Money_get_total_cents(acc.underpaid) = U32(0)
    THEN [tag |-> "Ok", money |-> acc.total_change, paid_less |-> {}]
    ELSE IF ~ U32Lt(acc.total_change, acc.underpaid)
    THEN [tag |-> "EnoughInTotal", money |-> Money_sub(acc.total_change, acc.underpaid),
          paid_less |-> acc.paid_less]
    ELSE [tag |-> "Underpaid", money |-> Money_sub(acc.underpaid, acc.total_change),
          paid_less |-> acc.paid_less]

\* The decision of calculate_total_change on the accumulated sums.
Order_total_change_decide(acc) ==
    IF acc.panicked \/ acc.total_change = Panic \/ acc.underpaid = Panic
    THEN [tag |-> "Panic", money |-> Panic, paid_less |-> {}]
    ELSE IF Money_get_total_cents(acc.underpaid) = U32(0)
    THEN [tag |-> "Ok", money |-> acc.total_change, paid_less |-> {}]
    ELSE IF Money_gt(acc.total_change, acc.underpaid)
    THEN [tag |-> "EnoughInTotal", money |-> Money_sub(acc.total_change, acc.underpaid),
          paid_less |-> acc.paid_less]
    ELSE [tag |-> "Underpaid", money |-> Money_sub(acc.underpaid, acc.total_change),
          paid_less |-> acc.paid_less]

\* The sums and the set calculate_total_change starts its loop with.
Order_total_change_start ==
    [total_change |-> Money_zero, underpaid |-> Money_zero,
     paid_less |-> {}, panicked |-> FALSE]

\* Order::calculate_total_change: Ok(change), Err(EnoughInTotal{change, paid_less}),
\* Err(Underpaid{underpaid, paid_less}) or a panic.
Order_calculate_total_change(ms, visit) ==
    Order_total_change_decide(
        Order_total_change_loop(ms, visit.users, Order_total_change_start, visit.meals))

(***************************************************************************)
(* Inputs and bounds                                                       *)
(***************************************************************************)
Users == {"Adam", "Eva"}

NoUser == ""

\* A meal factory issues at most MaxMeals ids.
MaxMeals == 2

Prices == {U32(1), U32(2)}

\* Paid amounts: nothing, the price of the cheaper meal, and the price of
\* the dearer meal with a tip.
PaidAmounts == {U32(0), U32(1), U32(3)}

Tips == {U32(0), U32(1)}

MealIds == {U32(n) : n \in 0..MaxMeals}

\* Amounts at both ends of the u32 range, for the ledger used on its own.
WideAmounts == {U32(0), U32(1), U32Max}

\* Money::new arguments: euros (u32) and cents (u8), up to the largest
\* amount a u32 of cents holds, Money::new(42949672, 95).
EuroArgs == {U32(0), U32(7), U32(42949672)}

CentArgs == {0, 20, 40, 95}

MoneyArgs == [euros : EuroArgs, cents : CentArgs]

\* Money::new arguments over the whole of their types: cents above 99 and
\* euros on both sides of the largest amount a u32 of cents holds.
WideEuroArgs == {U32(0), U32(1), U32(2), U32(3), U32(42949672), U32(42949673)}

WideCentArgs == {0, 5, 95, 99, 205}

WideMoneyArgs == [euros : WideEuroArgs, cents : WideCentArgs]

\* Scalars of the three types Money is multiplied with.
Factors ==
    {[width |-> 8, value |-> U32(0)], [width |-> 8, value |-> U32(3)],
     [width |-> 8, value |-> U32(255)], [width |-> 16, value |-> U32(65535)],
     [width |-> 32, value |-> U32(65536)], [width |-> 32, value |-> U32Max]}

\* The ids a MealFactory is constructed to start by.
Bases == {U32(0), U32(7), U32(65535), U32Max}

\* The menu numbers of the meals a factory creates.
MenuNumbers == {"03", "35"}

\* The specials one meal is given at most, over its builder and itself.
MaxSpecials == 3

\* A running price is added to while it is less than MaxPrice cents away from
\* either end of the u32 range.
MaxPrice == 3

\* The descriptions of the specials.
Descriptions == {"Kaese", "Salami"}

\* The lists of descriptions handed to specials and specials_with_prices:
\* none, one, and two different ones in either order.
DescriptionLists ==
    {<<>>} \cup {<<d>> : d \in Descriptions}
           \cup {l \in {<<d, e>> : d \in Descriptions, e \in Descriptions} : l[1] # l[2]}

\* The prices a builder is set to and the prices subtracted from it.
BuilderPrices == {U32(0), U32(1), U32(2), U32Max}

\* The prices added to a builder.
BuilderAddPrices == {U32(1), U32(2)}

\* The lists of prices handed to specials_with_prices: none, one, and two
\* different ones in either order.
PriceLists ==
    {<<>>} \cup {<<p>> : p \in BuilderAddPrices}
           \cup {l \in {<<p, q>> : p \in BuilderAddPrices, q \in BuilderAddPrices} : l[1] # l[2]}

\* The special ids a removal is asked for.
SpecialIds == {U32(i) : i \in 0..MaxSpecials}

(***************************************************************************)
(* The state machine of one Order                                          *)
(***************************************************************************)
\* What a call returned: the operation, the user it was for, the variant of
\* its result and the variant's payload.
Ret(op, user, tag, money, paid_less, meal) ==
    [op |-> op, user |-> user, tag |-> tag, money |-> money,
     paid_less |-> paid_less, meal |-> meal]

\* The result of a call that returns nothing the model keeps.
NoResult == Ret("", NoUser, "Ok", Money_zero, {}, NoMeal)

\* What a call that was given a meal id returned: the id is kept with it.
RetId(op, user, tag, id, meal) ==
    [op |-> op, user |-> user, tag |-> tag, money |-> Money_zero,
     paid_less |-> {}, meal |-> meal, id |-> id]

\* The factor of a run that multiplies nothing.
NoFactor == [width |-> 8, value |-> U32(1)]

Init ==
    /\ meals = Order_new_meals
    /\ status = Order_new_status
    /\ manager = "Adam"
    /\ meal_factory = MealFactory_new
    /\ issued = <<>>
    /\ ledger = Meals_new("Petra")
    /\ ledger_factory = MealFactory_new
    /\ factory_base = U32(0)
    /\ factory_issued = <<>>
    /\ created = <<>>
    /\ lhs = [euros |-> U32(0), cents |-> 0]
    /\ rhs = [euros |-> U32(0), cents |-> 0]
    /\ factor = NoFactor
    /\ overflow_checks \in BOOLEAN
    /\ builder = MealBuilder_new
    /\ moved = FALSE
    /\ built = NoMeal
    /\ special_issued = <<>>
    /\ result = NoResult

OrderUnchanged == UNCHANGED <<meals, status, manager, meal_factory, issued>>

LedgerUnchanged == UNCHANGED <<ledger, ledger_factory, factory_base, factory_issued, created>>

MoneyUnchanged == UNCHANGED <<lhs, rhs, factor, overflow_checks>>

BuilderUnchanged == UNCHANGED <<builder, moved, built, special_issued>>

\* order.add_user(user)
AddUser(user) ==
    /\ meals' = Order_add_user(meals, user)
    /\ result' = Ret("add_user", user, "Ok", Money_zero, {}, NoMeal)
    /\ UNCHANGED <<status, manager, meal_factory, issued>>
    /\ LedgerUnchanged /\ MoneyUnchanged /\ BuilderUnchanged

\* order.add_meal_for_user(user, "03", "gross", price)
AddMealForUser(user, price) ==
    /\ user \in DOMAIN meals => U32Lt(meal_factory, U32(MaxMeals))
    /\ LET r == Order_add_meal_for_user(meals, meal_factory, user, "03", "gross", price)
       IN  /\ meals' = r.meals
           /\ meal_factory' = r.factory
           /\ issued' = IF r.tag = "Ok" THEN Append(issued, Meal_get_id(r.meal)) ELSE issued
           /\ result' = Ret("add_meal_for_user", user, r.tag, Money_zero, {}, r.meal)
    /\ UNCHANGED <<status, manager>>
    /\ LedgerUnchanged /\ MoneyUnchanged /\ BuilderUnchanged

\* order.get_meals_for_user(user).unwrap().remove_meal_by_id(id)
RemoveMealById(user, id) ==
    /\ user \in DOMAIN meals
    /\ meals' = [meals EXCEPT ![user] = Meals_remove_meal_by_id(meals[user], id).ledger]
    /\ result' = NoResult
    /\ UNCHANGED <<status, manager, meal_factory, issued>>
    /\ LedgerUnchanged /\ MoneyUnchanged /\ BuilderUnchanged

\* order.get_meals_for_user(user).unwrap().set_paid(paid)
SetPaid(user, paid) ==
    /\ user \in DOMAIN meals
    /\ meals' = [meals EXCEPT ![user] = Meals_set_paid(meals[user], paid)]
    /\ result' = NoResult
    /\ UNCHANGED <<status, manager, meal_factory, issued>>
    /\ LedgerUnchanged /\ MoneyUnchanged /\ BuilderUnchanged

\* order.get_meals_for_user(user).unwrap().set_tip(tip)
SetTip(user, tip) ==
    /\ user \in DOMAIN meals
    /\ meals' = [meals EXCEPT ![user] = Meals_set_tip(meals[user], tip)]
    /\ result' = NoResult
    /\ UNCHANGED <<status, manager, meal_factory, issued>>
    /\ LedgerUnchanged /\ MoneyUnchanged /\ BuilderUnchanged

\* order.get_meals_for_user(user).unwrap().calculate_total_price()
CalculateTotalPriceFor(user, keys) ==
    /\ user \in DOMAIN meals
    /\ LET r == Meals_calculate_total_price(meals[user], keys)
       IN  result' = Ret("calculate_total_price", user, MoneyResult("Ok", r).tag, r, {}, NoMeal)
    /\ OrderUnchanged /\ LedgerUnchanged /\ MoneyUnchanged /\ BuilderUnchanged

\* order.get_meals_for_user(user).unwrap().calculate_change()
CalculateChangeFor(user, keys) ==
    /\ user \in DOMAIN meals
    /\ LET r == Meals_calculate_change(meals[user], keys)
       IN  result' = Ret("calculate_change", user, r.tag, r.money, {}, NoMeal)
    /\ OrderUnchanged /\ LedgerUnchanged /\ MoneyUnchanged /\ BuilderUnchanged

\* A faulty calculate_total_change: it settles the tips while it reports.
CalculateTotalChange_settling(visit) ==
    /\ LET r == Order_calculate_total_change(meals, visit)
       IN  result' = Ret("calculate_total_change", NoUser, r.tag, r.money, r.paid_less, NoMeal)
    /\ meals' = [u \in DOMAIN meals |-> Meals_set_tip(meals[u], Money_zero)]
    /\ UNCHANGED <<status, manager, meal_factory, issued>>
    /\ LedgerUnchanged /\ MoneyUnchanged /\ BuilderUnchanged

\* order.calculate_total_change()
CalculateTotalChange(visit) ==
    /\ LET r == Order_calculate_total_change(meals, visit)
       IN  result' = Ret("calculate_total_change", NoUser, r.tag, r.money, r.paid_less, NoMeal)
    /\ OrderUnchanged /\ LedgerUnchanged /\ MoneyUnchanged /\ BuilderUnchanged

\* order.calculate_total_price()
CalculateTotalPrice(visit) ==
    /\ LET r == Order_calculate_total_price(meals, visit)
       IN  result' = Ret("calculate_total_price", NoUser, MoneyResult("Ok", r).tag, r, {}, NoMeal)
    /\ OrderUnchanged /\ LedgerUnchanged /\ MoneyUnchanged /\ BuilderUnchanged

\* order.calculate_total_tip()
CalculateTotalTip(visit) ==
    /\ LET r == Order_calculate_total_tip(meals, visit)
       IN  result' = Ret("calculate_total_tip", NoUser, MoneyResult("Ok", r).tag, r, {}, NoMeal)
    /\ OrderUnchanged /\ LedgerUnchanged /\ MoneyUnchanged /\ BuilderUnchanged

Next ==
    \/ \E user \in Users : AddUser(user)
    \/ \E user \in Users, price \in Prices : AddMealForUser(user, price)
    \/ \E user \in Users, id \in MealIds : RemoveMealById(user, id)
    \/ \E user \in Users, paid \in PaidAmounts : SetPaid(user, paid)
    \/ \E user \in Users, tip \in Tips : SetTip(user, tip)
    \/ \E user \in DOMAIN meals :
          \E keys \in Traversals(DOMAIN meals[user].meals) : CalculateTotalPriceFor(user, keys)
    \/ \E user \in DOMAIN meals :
          \E keys \in Traversals(DOMAIN meals[user].meals) : CalculateChangeFor(user, keys)
    \/ \E visit \in Visits(meals) : CalculateTotalPrice(visit)
    \/ \E visit \in Visits(meals) : CalculateTotalTip(visit)
    \/ \E visit \in Visits(meals) : CalculateTotalChange(visit)

\* The amounts of this specification stay within a few cents, so no
\* arithmetic of it comes near an end of u32 and the two builds take the
\* same steps: it runs the build with overflow checks, the one cargo test
\* uses.  SpecTraversal runs the same order with prices at the end of u32
\* under both builds.
InitOrder == Init /\ overflow_checks = TRUE

Spec == InitOrder /\ [][Next]_vars

(***************************************************************************)
(* The same Order with amounts from both ends of the u32 range, so that    *)
(* the sums its queries build overflow.                                    *)
(***************************************************************************)
\* The prices of the meals of this order.
TraversalPrices == {U32(1), U32Max}

\* What the participants of this order pay: nothing or the largest amount.
TraversalPaid == {U32(0), U32Max}

NextTraversal ==
    \/ \E user \in Users : AddUser(user)
    \/ \E user \in Users, price \in TraversalPrices : AddMealForUser(user, price)
    \/ \E user \in Users, id \in MealIds : RemoveMealById(user, id)
    \/ \E user \in Users, paid \in TraversalPaid : SetPaid(user, paid)
    \/ \E user \in Users, tip \in Tips : SetTip(user, tip)
    \/ \E user \in DOMAIN meals :
          \E keys \in Traversals(DOMAIN meals[user].meals) : CalculateTotalPriceFor(user, keys)
    \/ \E user \in DOMAIN meals :
          \E keys \in Traversals(DOMAIN meals[user].meals) : CalculateChangeFor(user, keys)
    \/ \E visit \in Visits(meals) : CalculateTotalPrice(visit)
    \/ \E visit \in Visits(meals) : CalculateTotalTip(visit)
    \/ \E visit \in Visits(meals) : CalculateTotalChange(visit)

SpecTraversal == Init /\ [][NextTraversal]_vars

(***************************************************************************)
(* The state machine of one Meals ledger used on its own, fed by its own   *)
(* MealFactory.  The actions take their amounts as parameters: NextMeals   *)
(* draws them from the small amounts, NextMealsWide from WideAmounts.      *)
(***************************************************************************)
\* ledger.add_meal(factory.create_meal("03", "gross", price))
LedgerAddMeal(price) ==
    /\ U32Lt(ledger_factory, U32(MaxMeals))
    /\ LET c == MealFactory_create_meal(ledger_factory, "03", "gross", price)
       IN  /\ ledger' = IF c.meal = NoMeal THEN ledger ELSE Meals_add_meal(ledger, c.meal)
           /\ ledger_factory' = c.factory
           /\ created' = IF c.meal = NoMeal THEN created ELSE Append(created, c.meal)
           /\ factory_issued' = IF c.meal = NoMeal THEN factory_issued
                                ELSE Append(factory_issued, Meal_get_id(c.meal))
           /\ result' = IF c.meal = NoMeal
                        THEN Ret("add_meal", Meals_get_owner(ledger), "Panic", Panic, {}, NoMeal)
                        ELSE NoResult
    /\ UNCHANGED factory_base
    /\ OrderUnchanged /\ MoneyUnchanged /\ BuilderUnchanged

\* ledger.remove_meal(Meal::new(id, "35", "Spaghetti", price))
LedgerRemoveMeal(id, price) ==
    /\ LET r == Meals_remove_meal(ledger, Meal_new(id, "35", "Spaghetti", price,
                                                     EmptyMap, IdProvider_new))
       IN  /\ ledger' = r.ledger
           /\ result' = RetId("remove_meal", Meals_get_owner(ledger),
                              IF r.removed THEN "true" ELSE "false", id, NoMeal)
    /\ UNCHANGED <<ledger_factory, factory_base, factory_issued, created>>
    /\ OrderUnchanged /\ MoneyUnchanged /\ BuilderUnchanged

\* ledger.remove_meal_by_id(id)
LedgerRemoveMealById(id) ==
    /\ LET r == Meals_remove_meal_by_id(ledger, id)
       IN  /\ ledger' = r.ledger
           /\ result' = RetId("remove_meal_by_id", Meals_get_owner(ledger),
                              IF r.removed = NoMeal THEN "None" ELSE "Some",
                              id, r.removed)
    /\ UNCHANGED <<ledger_factory, factory_base, factory_issued, created>>
    /\ OrderUnchanged /\ MoneyUnchanged /\ BuilderUnchanged

\* ledger.set_paid(paid): the call returns nothing; the amount it was given
\* is kept as its result.
LedgerSetPaid(paid) ==
    /\ ledger' = Meals_set_paid(ledger, paid)
    /\ result' = Ret("set_paid", Meals_get_owner(ledger), "Ok", paid, {}, NoMeal)
    /\ UNCHANGED <<ledger_factory, factory_base, factory_issued, created>>
    /\ OrderUnchanged /\ MoneyUnchanged /\ BuilderUnchanged

\* ledger.set_tip(tip): as set_paid.
LedgerSetTip(tip) ==
    /\ ledger' = Meals_set_tip(ledger, tip)
    /\ result' = Ret("set_tip", Meals_get_owner(ledger), "Ok", tip, {}, NoMeal)
    /\ UNCHANGED <<ledger_factory, factory_base, factory_issued, created>>
    /\ OrderUnchanged /\ MoneyUnchanged /\ BuilderUnchanged

\* ledger.calculate_change()
LedgerCalculateChange(keys) ==
    /\ LET r == Meals_calculate_change(ledger, keys)
       IN  result' = Ret("calculate_change", Meals_get_owner(ledger), r.tag, r.money, {}, NoMeal)
    /\ OrderUnchanged /\ LedgerUnchanged /\ MoneyUnchanged /\ BuilderUnchanged

\* ledger.calculate_total_price()
LedgerCalculateTotalPrice(keys) ==
    /\ LET r == Meals_calculate_total_price(ledger, keys)
       IN  result' = Ret("calculate_total_price", Meals_get_owner(ledger),
                         MoneyResult("Ok", r).tag, r, {}, NoMeal)
    /\ OrderUnchanged /\ LedgerUnchanged /\ MoneyUnchanged /\ BuilderUnchanged

NextMeals ==
    \/ \E price \in Prices : LedgerAddMeal(price)
    \/ \E id \in MealIds, price \in Prices : LedgerRemoveMeal(id, price)
    \/ \E id \in MealIds : LedgerRemoveMealById(id)
    \/ \E paid \in PaidAmounts : LedgerSetPaid(paid)
    \/ \E tip \in Tips : LedgerSetTip(tip)
    \/ \E keys \in Traversals(DOMAIN ledger.meals) : LedgerCalculateTotalPrice(keys)
    \/ \E keys \in Traversals(DOMAIN ledger.meals) : LedgerCalculateChange(keys)

SpecMeals == Init /\ [][NextMeals]_vars

NextMealsWide ==
    \/ \E price \in WideAmounts \ {U32(0)} : LedgerAddMeal(price)
    \/ \E id \in MealIds : LedgerRemoveMealById(id)
    \/ \E paid \in WideAmounts : LedgerSetPaid(paid)
    \/ \E tip \in WideAmounts : LedgerSetTip(tip)
    \/ \E keys \in Traversals(DOMAIN ledger.meals) : LedgerCalculateChange(keys)

SpecMealsWide == Init /\ [][NextMealsWide]_vars

(***************************************************************************)
(* Money arithmetic on operands built by Money::new from drawn arguments   *)
(***************************************************************************)
InitMoney ==
    /\ meals = Order_new_meals
    /\ status = Order_new_status
    /\ manager = "Adam"
    /\ meal_factory = MealFactory_new
    /\ issued = <<>>
    /\ ledger = Meals_new("Petra")
    /\ ledger_factory = MealFactory_new
    /\ factory_base = U32(0)
    /\ factory_issued = <<>>
    /\ created = <<>>
    /\ lhs \in MoneyArgs
    /\ rhs \in MoneyArgs
    /\ factor = NoFactor
    /\ overflow_checks \in BOOLEAN
    /\ builder = MealBuilder_new
    /\ moved = FALSE
    /\ built = NoMeal
    /\ special_issued = <<>>
    /\ result = NoResult

\* Money::new(lhs.euros, lhs.cents) - Money::new(rhs.euros, rhs.cents)
MoneySub ==
    /\ LET r == Money_sub(Money_new(lhs.euros, lhs.cents), Money_new(rhs.euros, rhs.cents))
       IN  result' = Ret("sub", NoUser, MoneyResult("Ok", r).tag, r, {}, NoMeal)
    /\ OrderUnchanged /\ LedgerUnchanged /\ MoneyUnchanged /\ BuilderUnchanged

\* let mut m = Money::new(lhs.euros, lhs.cents); m -= Money::new(rhs.euros, rhs.cents)
MoneySubAssign ==
    /\ LET r == Money_sub_assign(Money_new(lhs.euros, lhs.cents), Money_new(rhs.euros, rhs.cents))
       IN  result' = Ret("sub_assign", NoUser, MoneyResult("Ok", r).tag, r, {}, NoMeal)
    /\ OrderUnchanged /\ LedgerUnchanged /\ MoneyUnchanged /\ BuilderUnchanged

NextMoney ==
    \/ MoneySub
    \/ MoneySubAssign

SpecMoney == InitMoney /\ [][NextMoney]_vars

(***************************************************************************)
(* Money built, compared, multiplied and printed, on arguments drawn from  *)
(* the whole of their types                                                *)
(***************************************************************************)
InitMoneyWide ==
    /\ meals = Order_new_meals
    /\ status = Order_new_status
    /\ manager = "Adam"
    /\ meal_factory = MealFactory_new
    /\ issued = <<>>
    /\ ledger = Meals_new("Petra")
    /\ ledger_factory = MealFactory_new
    /\ factory_base = U32(0)
    /\ factory_issued = <<>>
    /\ created = <<>>
    /\ lhs \in WideMoneyArgs
    /\ rhs \in WideMoneyArgs
    /\ factor \in Factors
    /\ overflow_checks \in BOOLEAN
    /\ builder = MealBuilder_new
    /\ moved = FALSE
    /\ built = NoMeal
    /\ special_issued = <<>>
    /\ result = NoResult

\* What a call that writes text returned.
RetText(op, tag, text) == [op |-> op, user |-> NoUser, tag |-> tag, text |-> text]

\* Money::new(lhs.euros, lhs.cents)
MoneyNew ==
    /\ LET r == Money_new(lhs.euros, lhs.cents)
       IN  result' = Ret("new", NoUser, MoneyResult("Ok", r).tag, r, {}, NoMeal)
    /\ OrderUnchanged /\ LedgerUnchanged /\ MoneyUnchanged /\ BuilderUnchanged

\* Money::new(lhs.euros, lhs.cents) == Money::new(rhs.euros, rhs.cents)
MoneyEq ==
    /\ LET a == Money_new(lhs.euros, lhs.cents)
           b == Money_new(rhs.euros, rhs.cents)
       IN  result' = Ret("eq", NoUser,
                         IF a = Panic \/ b = Panic THEN "Panic"
                         ELSE IF Money_eq(a, b) THEN "true" ELSE "false",
                         Money_zero, {}, NoMeal)
    /\ OrderUnchanged /\ LedgerUnchanged /\ MoneyUnchanged /\ BuilderUnchanged

\* Money::new(lhs.euros, lhs.cents) * factor, by the impl of the factor's type
MoneyMul ==
    /\ LET a == Money_new(lhs.euros, lhs.cents)
           r == CASE factor.width = 8 -> Money_mul_u8(a, factor.value)
                  [] factor.width = 16 -> Money_mul_u16(a, factor.value)
                  [] factor.width = 32 -> Money_mul_u32(a, factor.value)
       IN  result' = Ret("mul", NoUser, MoneyResult("Ok", r).tag, r, {}, NoMeal)
    /\ OrderUnchanged /\ LedgerUnchanged /\ MoneyUnchanged /\ BuilderUnchanged

\* factor * Money::new(lhs.euros, lhs.cents)
ScalarMul ==
    /\ LET a == Money_new(lhs.euros, lhs.cents)
           r == CASE factor.width = 8 -> u8_mul_Money(factor.value, a)
                  [] factor.width = 16 -> u16_mul_Money(factor.value, a)
                  [] factor.width = 32 -> u32_mul_Money(factor.value, a)
       IN  result' = Ret("scalar_mul", NoUser, MoneyResult("Ok", r).tag, r, {}, NoMeal)
    /\ OrderUnchanged /\ LedgerUnchanged /\ MoneyUnchanged /\ BuilderUnchanged

\* write!(&mut output, "{}", Money::new(lhs.euros, lhs.cents))
MoneyDisplay ==
    /\ LET a == Money_new(lhs.euros, lhs.cents)
       IN  result' = IF a = Panic THEN RetText("fmt", "Panic", <<>>)
                      ELSE RetText("fmt", "Ok", Money_fmt(a))
    /\ OrderUnchanged /\ LedgerUnchanged /\ MoneyUnchanged /\ BuilderUnchanged

NextMoneyWide ==
    \/ MoneyNew
    \/ MoneyEq
    \/ MoneyMul
    \/ ScalarMul
    \/ MoneyDisplay

SpecMoneyWide == InitMoneyWide /\ [][NextMoneyWide]_vars

(***************************************************************************)
(* The state machine of one MealBuilder and of the Meal it builds          *)
(***************************************************************************)
\* What a call on the builder or on the built meal returned, kept with the
\* arguments of the call.
RetBuilder(op, tag, descriptions, prices, money, count, special, id) ==
    [op |-> op, user |-> NoUser, tag |-> tag, descriptions |-> descriptions,
     prices |-> prices, money |-> money, count |-> count, special |-> special, id |-> id]

\* The builder has not been moved into a call of meal, whether that call
\* returned a meal or panicked.
Building == ~ moved

\* The builder has been turned into a meal.
Built == built # NoMeal

\* The running price is within MaxPrice cents of an end of the u32 range.
PriceInBounds ==
    builder.price.some =>
        \/ U32Lt(builder.price.value, U32(MaxPrice))
        \/ builder.price.value.hi = Base - 1 /\ builder.price.value.lo >= Base - MaxPrice

\* The running price is in the lowest 2^16 cents of the u32 range or within
\* MaxPrice cents of its upper end.
PriceNearAnEnd ==
    builder.price.some =>
        \/ builder.price.value.hi = 0
        \/ builder.price.value.hi = Base - 1 /\ builder.price.value.lo >= Base - MaxPrice

\* The ids a step has added to the specials of the builder or of the meal.
RECURSIVE IdsFrom(_, _)
IdsFrom(factory, n) ==
    IF n = 0 THEN <<>> ELSE <<factory>> \o IdsFrom(IdProvider_generate_next(factory).next_id, n - 1)

\* The builder after a call and the ids the call has handed out; a call
\* that overflowed a price in a build with overflow checks has the result
\* "Panic" and leaves the builder as far as it had changed it.
BuilderStep(op, r, descriptions, prices) ==
    /\ builder' = r.builder
    /\ special_issued' = special_issued \o
           IdsFrom(builder.special_factory,
                   r.builder.special_factory.lo - builder.special_factory.lo)
    /\ result' = IF r.panicked
                 THEN RetBuilder(op, "Panic", descriptions, prices, Panic, 0, NoSpecial, Panic)
                 ELSE RetBuilder(op, "Ok", descriptions, prices, Money_zero, 0, NoSpecial, Panic)

BuilderFrame ==
    /\ UNCHANGED <<moved, built, ledger_factory>>
    /\ UNCHANGED <<ledger, factory_base, factory_issued, created>>
    /\ OrderUnchanged /\ MoneyUnchanged

\* builder.meal_id("03")
BuilderMealId ==
    /\ Building
    /\ BuilderStep("meal_id", Outcome(FALSE, MealBuilder_meal_id(builder, "03")), <<>>, <<>>)
    /\ BuilderFrame

\* builder.variety("gross")
BuilderVariety ==
    /\ Building
    /\ BuilderStep("variety", Outcome(FALSE, MealBuilder_variety(builder, "gross")), <<>>, <<>>)
    /\ BuilderFrame

\* builder.special(description)
BuilderSpecial(description) ==
    /\ Building
    /\ Len(special_issued) < MaxSpecials
    /\ BuilderStep("special", Outcome(FALSE, MealBuilder_special(builder, description)),
                   <<description>>, <<>>)
    /\ BuilderFrame

\* builder.specials(descriptions)
BuilderSpecials(descriptions) ==
    /\ Building
    /\ Len(special_issued) + Len(descriptions) <= MaxSpecials
    /\ BuilderStep("specials", Outcome(FALSE, MealBuilder_specials(builder, descriptions)),
                   descriptions, <<>>)
    /\ BuilderFrame

\* builder.price(price)
BuilderPrice(price) ==
    /\ Building
    /\ BuilderStep("price", Outcome(FALSE, MealBuilder_price(builder, price)), <<>>, <<price>>)
    /\ BuilderFrame

\* builder.add_price(price)
BuilderAddPrice(price) ==
    /\ Building
    /\ PriceInBounds
    /\ BuilderStep("add_price", MealBuilder_add_price(builder, price), <<>>, <<price>>)
    /\ BuilderFrame

\* builder.diff_price(price)
BuilderDiffPrice(price) ==
    /\ Building
    /\ PriceNearAnEnd
    /\ LET r == MealBuilder_diff_price(builder, price)
       IN  /\ builder' = r.builder
           /\ result' = RetBuilder("diff_price", r.tag, <<>>, <<price>>, r.money, 0,
                                   NoSpecial, Panic)
    /\ UNCHANGED special_issued
    /\ BuilderFrame

\* builder.special_with_price(description, price)
BuilderSpecialWithPrice(description, price) ==
    /\ Building
    /\ PriceInBounds
    /\ Len(special_issued) < MaxSpecials
    /\ BuilderStep("special_with_price",
                   MealBuilder_special_with_price(builder, description, price),
                   <<description>>, <<price>>)
    /\ BuilderFrame

\* builder.specials_with_prices(descriptions, prices)
BuilderSpecialsWithPrices(descriptions, prices) ==
    /\ Building
    /\ PriceInBounds
    /\ Len(special_issued) + Len(descriptions) <= MaxSpecials
    /\ LET r == MealBuilder_specials_with_prices(builder, descriptions, prices)
       IN  IF r.tag \in {"Ok", "Panic"}
           THEN BuilderStep("specials_with_prices", Outcome(r.tag = "Panic", r.builder),
                            descriptions, prices)
           ELSE /\ builder' = r.builder
                /\ special_issued' = special_issued
                /\ result' = RetBuilder("specials_with_prices", r.tag, descriptions, prices,
                                        Money_zero, r.count, NoSpecial, Panic)
    /\ BuilderFrame

\* builder.meal(&mut meal_factory): the builder is moved into the call and
\* cannot be used again; the variable is left holding a new, unused builder.
\* With a meal factory at u32::MAX in a build with overflow checks the call
\* panics in IdProvider::generate_next: no meal, the factory as it was.
BuilderMeal ==
    /\ Building
    /\ LET r == MealBuilder_meal(builder, ledger_factory)
       IN  /\ built' = r.meal
           /\ builder' = MealBuilder_new
           /\ moved' = TRUE
           /\ ledger_factory' = r.factory
           /\ factory_issued' = IF r.meal = NoMeal THEN factory_issued
                                ELSE Append(factory_issued, Meal_get_id(r.meal))
           /\ result' = RetBuilder("meal", IF r.meal = NoMeal THEN "Panic" ELSE "Ok",
                                   <<>>, <<>>, Money_zero, 0, NoSpecial, Panic)
    /\ UNCHANGED special_issued
    /\ UNCHANGED <<ledger, factory_base, created>>
    /\ OrderUnchanged /\ MoneyUnchanged

\* meal.add_special(description)
MealAddSpecial(description) ==
    /\ Built
    /\ Len(special_issued) < MaxSpecials
    /\ LET r == Meal_add_special(built, description)
       IN  /\ built' = r.meal
           /\ special_issued' = Append(special_issued, Special_get_id(r.special))
           /\ result' = RetBuilder("add_special", "Ok", <<description>>, <<>>, Money_zero, 0,
                                   r.special, Special_get_id(r.special))
    /\ UNCHANGED <<builder, moved, ledger_factory>>
    /\ UNCHANGED <<ledger, factory_base, factory_issued, created>>
    /\ OrderUnchanged /\ MoneyUnchanged

\* meal.specials_mut(), and set_description(description) on the special of
\* that id among the specials it yields.
MealSetDescription(id, description) ==
    /\ Built
    /\ id \in DOMAIN built.specials
    /\ built' = [built EXCEPT
                    !.specials[id] = Special_set_description(built.specials[id], description)]
    /\ result' = RetBuilder("set_description", "Ok", <<description>>, <<>>, Money_zero, 0,
                            built'.specials[id], id)
    /\ UNCHANGED <<builder, moved, special_issued, ledger_factory>>
    /\ UNCHANGED <<ledger, factory_base, factory_issued, created>>
    /\ OrderUnchanged /\ MoneyUnchanged

\* meal.remove_special(id)
MealRemoveSpecial(id) ==
    /\ Built
    /\ LET r == Meal_remove_special(built, id)
       IN  /\ built' = r.meal
           /\ result' = RetBuilder("remove_special", r.tag, <<>>, <<>>, Money_zero, 0,
                                   r.special, id)
    /\ UNCHANGED <<builder, moved, special_issued, ledger_factory>>
    /\ UNCHANGED <<ledger, factory_base, factory_issued, created>>
    /\ OrderUnchanged /\ MoneyUnchanged

NextBuilder ==
    \/ BuilderMealId
    \/ BuilderVariety
    \/ \E description \in Descriptions : BuilderSpecial(description)
    \/ \E descriptions \in DescriptionLists : BuilderSpecials(descriptions)
    \/ \E price \in BuilderPrices : BuilderPrice(price)
    \/ \E price \in BuilderAddPrices : BuilderAddPrice(price)
    \/ \E price \in BuilderPrices : BuilderDiffPrice(price)
    \/ \E description \in Descriptions, price \in BuilderAddPrices :
           BuilderSpecialWithPrice(description, price)
    \/ \E descriptions \in DescriptionLists, prices \in PriceLists :
           BuilderSpecialsWithPrices(descriptions, prices)
    \/ BuilderMeal
    \/ \E description \in Descriptions : MealAddSpecial(description)
    \/ \E id \in SpecialIds, description \in Descriptions : MealSetDescription(id, description)
    \/ \E id \in SpecialIds : MealRemoveSpecial(id)

SpecBuilder == Init /\ [][NextBuilder]_vars

(***************************************************************************)
(* A MealFactory constructed by new or by start_by, used on its own and by  *)
(* a MealBuilder                                                           *)
(***************************************************************************)
InitFactory ==
    /\ meals = Order_new_meals
    /\ status = Order_new_status
    /\ manager = "Adam"
    /\ meal_factory = MealFactory_new
    /\ issued = <<>>
    /\ ledger = Meals_new("Petra")
    /\ \/ ledger_factory = MealFactory_new /\ factory_base = U32(0)
       \/ \E base \in Bases : ledger_factory = MealFactory_start_by(base) /\ factory_base = base
    /\ factory_issued = <<>>
    /\ created = <<>>
    /\ lhs = [euros |-> U32(0), cents |-> 0]
    /\ rhs = [euros |-> U32(0), cents |-> 0]
    /\ factor = NoFactor
    /\ overflow_checks \in BOOLEAN
    /\ builder = MealBuilder_new
    /\ moved = FALSE
    /\ built = NoMeal
    /\ special_issued = <<>>
    /\ result = NoResult

\* factory.create_meal(meal_id, "gross", price)
FactoryCreateMeal(meal_id, price) ==
    /\ Len(created) < MaxMeals
    /\ LET c == MealFactory_create_meal(ledger_factory, meal_id, "gross", price)
       IN  /\ ledger_factory' = c.factory
           /\ created' = IF c.meal = NoMeal THEN created ELSE Append(created, c.meal)
           /\ factory_issued' = IF c.meal = NoMeal THEN factory_issued
                                ELSE Append(factory_issued, Meal_get_id(c.meal))
           /\ result' = Ret("create_meal", NoUser, IF c.meal = NoMeal THEN "Panic" ELSE "Ok",
                            Money_zero, {}, c.meal)
    /\ UNCHANGED <<ledger, factory_base>>
    /\ OrderUnchanged /\ MoneyUnchanged /\ BuilderUnchanged

\* The factory creates meals itself and is handed to builder.meal.
NextFactory ==
    \/ \E meal_id \in MenuNumbers, price \in Prices : FactoryCreateMeal(meal_id, price)
    \/ BuilderMealId
    \/ BuilderVariety
    \/ \E price \in BuilderPrices : BuilderPrice(price)
    \/ \E description \in Descriptions : BuilderSpecial(description)
    \/ BuilderMeal

SpecFactory == InitFactory /\ [][NextFactory]_vars

(***************************************************************************)
(* What the claims measure the code against: amounts as natural numbers    *)
(* of cents, summed exactly.  NatOf is used on amounts below 2^31 only.    *)
(***************************************************************************)
NatOf(m) == m.hi * Base + m.lo

RECURSIVE NatSum(_)
NatSum(f) ==
    IF DOMAIN f = {} THEN 0
    ELSE LET k == CHOOSE x \in DOMAIN f : TRUE
         IN  f[k] + NatSum([x \in (DOMAIN f) \ {k} |-> f[x]])

\* What a ledger owes: the prices of its meals plus its tip.
Owed(l) == NatSum([id \in DOMAIN l.meals |-> NatOf(l.meals[id].price)]) + NatOf(l.tip)

Paid(l) == NatOf(l.paid)

Underpayers == {u \in DOMAIN meals : Paid(meals[u]) < Owed(meals[u])}

\* The surpluses of the ledgers that paid enough, and the shortfalls of the others.
TotalChange ==
    NatSum([u \in (DOMAIN meals) \ Underpayers |-> Paid(meals[u]) - Owed(meals[u])])

TotalUnderpaid == NatSum([u \in Underpayers |-> Owed(meals[u]) - Paid(meals[u])])

HoldsMeals(u) == u \in DOMAIN meals /\ DOMAIN meals[u].meals # {}

IsTotalChange == result.op = "calculate_total_change"

\* C1: calculate_total_change returns Ok(c), with c the sum over all ledgers of
\* paid - (meal prices + tip), for every order in which no ledger is underpaid,
\* and returns Ok for no other order.
C1_OkIffNobodyUnderpaid ==
    IsTotalChange =>
        /\ Underpayers = {} => (result.tag = "Ok" /\ NatOf(result.money) = TotalChange)
        /\ result.tag = "Ok" => Underpayers = {}

\* Both participants paid more than they owe for the meals they hold.
C1_Witness ==
    /\ IsTotalChange /\ result.tag = "Ok"
    /\ \A u \in Users : HoldsMeals(u) /\ Paid(meals[u]) > Owed(meals[u])
    /\ NatOf(result.money) >= 2

\* C2: with a ledger underpaid and the total change strictly above the total
\* underpaid, calculate_total_change returns Err(EnoughInTotal) whose change is
\* total change - total underpaid.
C2_EnoughInTotal ==
    (IsTotalChange /\ Underpayers # {} /\ TotalChange > TotalUnderpaid) =>
        (result.tag = "EnoughInTotal" /\ NatOf(result.money) = TotalChange - TotalUnderpaid)

\* One participant's surplus exceeds the other's shortfall on a meal.
C2_Witness ==
    /\ IsTotalChange /\ result.tag = "EnoughInTotal"
    /\ TotalUnderpaid >= 1 /\ TotalChange >= TotalUnderpaid + 1
    /\ \E u \in Underpayers : HoldsMeals(u)

\* C3: with a ledger underpaid and the total change not above the total
\* underpaid, calculate_total_change returns Err(Underpaid) whose amount is
\* total underpaid - total change.
C3_Underpaid ==
    (IsTotalChange /\ Underpayers # {} /\ TotalChange <= TotalUnderpaid) =>
        (result.tag = "Underpaid" /\ NatOf(result.money) = TotalUnderpaid - TotalChange)

\* One participant has a surplus, the other a larger shortfall.
C3_Witness ==
    /\ IsTotalChange /\ result.tag = "Underpaid"
    /\ TotalChange >= 1 /\ TotalUnderpaid > TotalChange

\* C4: in every error result of calculate_total_change, paid_less is exactly
\* the set of participants who paid less than they owe, and is not empty.
C4_PaidLessExact ==
    (IsTotalChange /\ result.tag \in {"EnoughInTotal", "Underpaid"}) =>
        (result.paid_less = Underpayers /\ result.paid_less # {})

\* An error result that names one participant and leaves out the other, who paid enough.
C4_Witness ==
    /\ IsTotalChange /\ result.tag \in {"EnoughInTotal", "Underpaid"}
    /\ Cardinality(DOMAIN meals) = 2 /\ Cardinality(result.paid_less) = 1

\* C5: Meals::calculate_change returns Ok(paid - owed) when paid >= owed and
\* Err(Underpaid(owed - paid)), a strictly positive amount, when paid < owed,
\* where owed is the total price of the ledger's meals plus its tip.
C5_ChangeOrUnderpaid ==
    result.op = "calculate_change" =>
        /\ Paid(ledger) >= Owed(ledger) =>
               (result.tag = "Ok" /\ NatOf(result.money) = Paid(ledger) - Owed(ledger))
        /\ Paid(ledger) < Owed(ledger) =>
               (result.tag = "Underpaid" /\ NatOf(result.money) = Owed(ledger) - Paid(ledger)
                /\ NatOf(result.money) > 0)

\* An underpaid ledger that holds two meals and a tip.
C5_Witness ==
    /\ result.op = "calculate_change" /\ result.tag = "Underpaid"
    /\ Cardinality(DOMAIN ledger.meals) = 2 /\ NatOf(ledger.tip) > 0
    /\ NatOf(ledger.paid) > 0

\* C6: Meals::calculate_change never panics: on every ledger that add_meal,
\* remove_meal_by_id, set_paid and set_tip can build from u32 amounts it
\* returns Ok or Err(Underpaid).
C6_ChangeNeverPanics ==
    result.op = "calculate_change" => result.tag \in {"Ok", "Underpaid"}

\* C7: add_meal_for_user for a user who is not participating returns
\* Err(UserNotParticipating) and changes nothing: no ledger appears for the
\* user, no ledger changes and the meal factory hands out no id.
C7_UnknownUserRejected ==
    [][(result'.op = "add_meal_for_user" /\ result'.user \notin DOMAIN meals) =>
          /\ result'.tag = "UserNotParticipating"
          /\ Order_get_meals_for_user(meals', result'.user) = "None"
          /\ meals' = meals
          /\ meal_factory' = meal_factory
          /\ issued' = issued]_vars

\* The call was rejected in an order whose other participant holds a meal.
C7_Witness ==
    /\ result.op = "add_meal_for_user" /\ result.tag = "UserNotParticipating"
    /\ result.user \notin DOMAIN meals
    /\ \E u \in Users : HoldsMeals(u)

\* C8: no two meals held in the order, in one ledger or in two, have the same
\* id, and the order's factory never hands out an id twice.
C8_MealIdsUnique ==
    /\ \A u \in DOMAIN meals : \A k \in DOMAIN meals[u].meals :
           /\ Meal_get_id(meals[u].meals[k]) = k
           /\ \E i \in 1..Len(issued) : issued[i] = k
    /\ \A u1, u2 \in DOMAIN meals :
           u1 # u2 => (DOMAIN meals[u1].meals) \cap (DOMAIN meals[u2].meals) = {}
    /\ \A i, j \in 1..Len(issued) : i # j => issued[i] # issued[j]

\* Two ids were handed out and each participant holds a meal.
C8_Witness ==
    /\ Len(issued) >= 2
    /\ \A u \in Users : HoldsMeals(u)

\* The operands of the Money subtraction.
LhsMoney == Money_new(lhs.euros, lhs.cents)

RhsMoney == Money_new(rhs.euros, rhs.cents)

IsSub == result.op \in {"sub", "sub_assign"}

\* C9: a - b and a -= b panic whenever b's cents exceed a's; they never yield
\* a clamped or wrapped Money.
C9_UnderflowPanics ==
    (IsSub /\ U32Lt(Money_get_total_cents(LhsMoney), Money_get_total_cents(RhsMoney))) =>
        result.tag = "Panic"

\* Amounts as exact (euros, cents) pairs, cents in 0 .. 99: the arguments of
\* Money::new, and a u32 of cents (65536 = 655 * 100 + 36).
ArgEuros(x) == NatOf(x.euros) + (x.cents \div 100)

ArgCents(x) == x.cents % 100

ArgsGe(x, y) ==
    \/ ArgEuros(x) > ArgEuros(y)
    \/ ArgEuros(x) = ArgEuros(y) /\ ArgCents(x) >= ArgCents(y)

ArgsDiff(x, y) ==
    LET borrow == IF ArgCents(x) < ArgCents(y) THEN 1 ELSE 0
    IN  [euros |-> ArgEuros(x) - ArgEuros(y) - borrow,
         cents |-> (ArgCents(x) - ArgCents(y) + 100) % 100]

CentsEuros(m) == m.hi * 655 + ((m.hi * 36 + m.lo) \div 100)

CentsCents(m) == (m.hi * 36 + m.lo) % 100

\* C10: for all u1, c1, u2, c2 with u1*100+c1 >= u2*100+c2, the total cents
\* of Money::new(u1,c1) - Money::new(u2,c2) are (u1*100+c1) - (u2*100+c2).
C10_SubtractionExact ==
    (result.op = "sub" /\ ArgsGe(lhs, rhs)) =>
        /\ result.tag = "Ok"
        /\ CentsEuros(Money_get_total_cents(result.money)) = ArgsDiff(lhs, rhs).euros
        /\ CentsCents(Money_get_total_cents(result.money)) = ArgsDiff(lhs, rhs).cents

\* A subtraction that borrows from the euros, off the largest euro amount.
C10_Witness ==
    /\ result.op = "sub" /\ result.tag = "Ok"
    /\ lhs.euros = U32(42949672) /\ rhs.euros = U32(7)
    /\ lhs.cents < rhs.cents

(***************************************************************************)
(* Exact arithmetic for the claims on the whole u32 range: a natural       *)
(* number below 2^64 is its eight base-256 digits, least significant       *)
(* first, and is never reduced modulo anything.                            *)
(***************************************************************************)
Big(m) == <<m.lo % 256, m.lo \div 256, m.hi % 256, m.hi \div 256, 0, 0, 0, 0>>

RECURSIVE BigCarry(_, _)
BigCarry(columns, carry) ==
    IF columns = <<>> THEN <<>>
    ELSE <<(Head(columns) + carry) % 256>>
             \o BigCarry(Tail(columns), (Head(columns) + carry) \div 256)

BigAdd(x, y) == BigCarry([k \in 1..8 |-> x[k] + y[k]], 0)

\* The product of two numbers below 2^32 (their upper four digits are 0).
BigMul(x, y) ==
    LET term(i, k) == IF k + 1 - i \in 1..4 THEN x[i] * y[k + 1 - i] ELSE 0
    IN  BigCarry([k \in 1..8 |-> term(1, k) + term(2, k) + term(3, k) + term(4, k)], 0)

\* C11: Money::new(units, subunits) returns, for every argument pair, a Money
\* whose total cents are exactly units * 100 + subunits.
C11_NewExact ==
    result.op = "new" =>
        /\ result.tag = "Ok"
        /\ Big(Money_get_total_cents(result.money))
               = BigAdd(BigMul(Big(lhs.euros), Big(U32(100))), Big(U32(lhs.cents)))

\* The Money that is multiplied and printed.
BuiltMoney == Money_new(lhs.euros, lhs.cents)

\* C12: for every Money a and every scalar n of type u8, u16 or u32, a * n
\* and n * a are a Money whose total cents are exactly a's total cents times n.
C12_MulExact ==
    (result.op \in {"mul", "scalar_mul"} /\ BuiltMoney # Panic) =>
        /\ result.tag = "Ok"
        /\ Big(Money_get_total_cents(result.money))
               = BigMul(Big(Money_get_total_cents(BuiltMoney)), Big(factor.value))

\* A number below 100 written with exactly two decimal digits.
TwoDigits(c) == DisplayUnsigned(c \div 10) \o DisplayUnsigned(c % 10)

\* C13: Display writes a Money as its whole euros, a comma, its cents with
\* exactly two digits (a leading zero below 10) and the currency sign.
C13_DisplayTwoDigitCents ==
    (result.op = "fmt" /\ result.tag = "Ok") =>
        result.text = DisplayUnsigned(CentsEuros(BuiltMoney)) \o <<",">>
                          \o TwoDigits(CentsCents(BuiltMoney)) \o <<"€">>

\* The prices of the meals a ledger holds, summed exactly.
PriceSum(l) == NatSum([id \in DOMAIN l.meals |-> NatOf(l.meals[id].price)])

\* C14: Meals::calculate_total_price returns the sum of the prices of exactly
\* the meals the ledger holds, whatever add_meal, remove_meal and
\* remove_meal_by_id did before, and zero for a ledger without meals; paid and
\* tip have no part in it.
C14_LedgerTotalPrice ==
    (result.op = "calculate_total_price" /\ result.user = Meals_get_owner(ledger)) =>
        /\ result.tag = "Ok"
        /\ NatOf(result.money) = PriceSum(ledger)
        /\ DOMAIN ledger.meals = {} => result.money = U32(0)

\* Two meals were added and one removed again; the ledger has a paid amount
\* and a tip.
C14_Witness ==
    /\ result.op = "calculate_total_price" /\ result.user = Meals_get_owner(ledger)
    /\ Len(created) = 2 /\ Cardinality(DOMAIN ledger.meals) = 1
    /\ NatOf(ledger.paid) > 0 /\ NatOf(ledger.tip) > 0
    /\ NatOf(result.money) > 0

\* C15: Order::calculate_total_price is the sum over the order's ledgers of
\* each ledger's calculate_total_price, and zero for an order without
\* participants or without meals.
C15_OrderTotalPrice ==
    (result.op = "calculate_total_price" /\ result.user = NoUser) =>
        /\ result.tag = "Ok"
        /\ \A visit \in Visits(meals) :
              NatOf(result.money)
                 = NatSum([u \in DOMAIN meals |->
                              NatOf(Meals_calculate_total_price(meals[u], visit.meals[u]))])
        /\ NatOf(result.money) = NatSum([u \in DOMAIN meals |-> PriceSum(meals[u])])
        /\ (\A u \in DOMAIN meals : DOMAIN meals[u].meals = {}) => result.money = U32(0)

\* Both participants hold a meal, at different prices.
C15_Witness ==
    /\ result.op = "calculate_total_price" /\ result.user = NoUser
    /\ \A u \in Users : HoldsMeals(u)
    /\ PriceSum(meals["Adam"]) # PriceSum(meals["Eva"])
    /\ NatOf(result.money) = 3

\* C16: Order::calculate_total_tip is the sum of the tips recorded in the
\* order's ledgers, whatever meals they hold and whatever was paid.
C16_OrderTotalTip ==
    result.op = "calculate_total_tip" =>
        /\ result.tag = "Ok"
        /\ NatOf(result.money) = NatSum([u \in DOMAIN meals |-> NatOf(Meals_get_tip(meals[u]))])

\* Both participants tipped; one of them holds a meal and paid something.
C16_Witness ==
    /\ result.op = "calculate_total_tip" /\ NatOf(result.money) = 2
    /\ \A u \in Users : u \in DOMAIN meals /\ NatOf(meals[u].tip) = 1
    /\ \E u \in Users : HoldsMeals(u) /\ NatOf(meals[u].paid) > 0

\* C17: the k-th meal a MealFactory creates, by create_meal or for a
\* MealBuilder, has id base + k - 1, with base 0 for MealFactory::new() and
\* the given value for start_by; the ids are strictly increasing and no two
\* meals of one factory have the same id.
C17_FactoryIdsIncreasing ==
    /\ \A k \in 1..Len(factory_issued) :
           Big(factory_issued[k]) = BigAdd(Big(factory_base), Big(U32(k - 1)))
    /\ \A i, j \in 1..Len(factory_issued) :
           i < j => U32Lt(factory_issued[i], factory_issued[j])
    /\ \A k \in 1..Len(created) :
           \E i \in 1..Len(factory_issued) : factory_issued[i] = Meal_get_id(created[k])
    /\ \A i, j \in 1..Len(created) :
           i < j => U32Lt(Meal_get_id(created[i]), Meal_get_id(created[j]))
    /\ built # NoMeal =>
           /\ \E i \in 1..Len(factory_issued) : factory_issued[i] = Meal_get_id(built)
           /\ \A k \in 1..Len(created) : Meal_get_id(created[k]) # Meal_get_id(built)

\* C18: remove_meal_by_id for the id of a meal that add_meal put into the
\* ledger returns Some of a meal equal to the one added, the ledger no longer
\* holds that id, and every other meal of the ledger stays as it was.
C18_AddRemoveRoundTrip ==
    [][(result'.op = "remove_meal_by_id" /\ result'.id \in DOMAIN ledger.meals) =>
          /\ result'.tag = "Some"
          /\ \E k \in 1..Len(created) :
                 created[k] = result'.meal /\ Meal_get_id(created[k]) = result'.id
          /\ DOMAIN ledger'.meals = (DOMAIN ledger.meals) \ {result'.id}
          /\ \A id \in DOMAIN ledger'.meals : ledger'.meals[id] = ledger.meals[id]]_vars

\* The first of two added meals was taken out again; the other, at another
\* price, is still held.
C18_Witness ==
    /\ result.op = "remove_meal_by_id" /\ result.tag = "Some"
    /\ Len(created) = 2 /\ result.meal = created[1]
    /\ DOMAIN ledger.meals = {Meal_get_id(created[2])}
    /\ Meal_get_price(created[1]) # Meal_get_price(created[2])

\* C19: remove_meal_by_id and remove_meal for an id the ledger does not hold
\* return None and false, and leave the ledger as it was: the same meals, as
\* many of them, the same paid amount and tip.
C19_RemoveAbsent ==
    [][(result'.op \in {"remove_meal_by_id", "remove_meal"}
            /\ result'.id \notin DOMAIN ledger.meals) =>
          /\ result'.op = "remove_meal_by_id" => (result'.tag = "None" /\ result'.meal = NoMeal)
          /\ result'.op = "remove_meal" => result'.tag = "false"
          /\ ledger'.meals = ledger.meals
          /\ Cardinality(DOMAIN ledger'.meals) = Cardinality(DOMAIN ledger.meals)
          /\ ledger'.paid = ledger.paid /\ ledger'.tip = ledger.tip
          /\ ledger' = ledger]_vars

\* remove_meal reported false on a ledger that holds two other meals, a paid
\* amount and a tip.
C19_Witness ==
    /\ result.op = "remove_meal" /\ result.tag = "false"
    /\ result.id \notin DOMAIN ledger.meals
    /\ Cardinality(DOMAIN ledger.meals) = 2
    /\ NatOf(ledger.paid) > 0 /\ NatOf(ledger.tip) > 0

\* C20: a new ledger has paid and tip zero; set_paid makes paid the amount
\* given and changes nothing else, set_tip makes tip the amount given and
\* changes nothing else, and no other operation changes paid, tip or owner:
\* paid and tip are always what the last set_paid and set_tip were given.
C20_SetPaidSetTipOverwrite ==
    /\ ledger.paid = U32(0) /\ ledger.tip = U32(0)
    /\ [][/\ result'.op = "set_paid" => ledger' = [ledger EXCEPT !.paid = result'.money]
          /\ result'.op = "set_tip" => ledger' = [ledger EXCEPT !.tip = result'.money]
          /\ result'.op \notin {"set_paid", "set_tip"} =>
                 /\ ledger'.paid = ledger.paid
                 /\ ledger'.tip = ledger.tip
                 /\ Meals_get_owner(ledger') = Meals_get_owner(ledger)]_vars

\* set_paid has just replaced a paid amount by one cent, on a ledger that
\* holds two meals and a tip.
C20_Witness ==
    /\ result.op = "set_paid" /\ NatOf(result.money) = 1 /\ ledger.paid = result.money
    /\ NatOf(ledger.tip) > 0 /\ Cardinality(DOMAIN ledger.meals) = 2

\* The queries of a ledger and of the order.
Queries ==
    {"calculate_total_price", "calculate_total_tip", "calculate_change",
     "calculate_total_change"}

\* C21: calculate_total_price, calculate_total_tip, calculate_change and
\* calculate_total_change change nothing of the order or of its ledgers, and a
\* query called again with no other call in between returns what it returned
\* before.
C21_QueriesChangeNothing ==
    [][result'.op \in Queries =>
          /\ meals' = meals /\ status' = status /\ manager' = manager
          /\ meal_factory' = meal_factory
          /\ (result.op = result'.op /\ result.user = result'.user) => result' = result]_vars

\* calculate_change was called on the ledger of a participant who holds a
\* meal, has paid and tipped, while the other participant holds a meal too.
C21_Witness ==
    /\ result.op = "calculate_change" /\ result.user = "Eva"
    /\ \A u \in Users : HoldsMeals(u)
    /\ NatOf(meals["Eva"].paid) > 0 /\ NatOf(meals["Eva"].tip) > 0

(***************************************************************************)
(* Claims about the specials of a meal and about the MealBuilder           *)
(***************************************************************************)
\* The ids in a sequence of ids.
IdSet(ids) == {ids[i] : i \in DOMAIN ids}

\* The step was meal.remove_special(id).
IsRemoveSpecialStep == result'.op = "remove_special" /\ built # NoMeal

\* C22: meal.remove_special(id) answers Ok with the stored special and takes
\* it out of the meal when the id is attached; it answers NotFound and leaves
\* the meal (specials, price, special factory) as it was when the id is not
\* attached.  After a removal the id is not attached, so that removing the
\* same id again answers NotFound.
C22_RemoveSpecial ==
    [][IsRemoveSpecialStep =>
         LET id == result'.id
         IN  /\ id \in DOMAIN built.specials =>
                   /\ result'.tag = "Ok"
                   /\ result'.special = built.specials[id]
                   /\ Special_get_id(result'.special) = id
                   /\ built'.specials =
                          [k \in DOMAIN built.specials \ {id} |-> built.specials[k]]
                   /\ built' = [built EXCEPT !.specials = built'.specials]
             /\ id \notin DOMAIN built.specials =>
                   /\ result'.tag = "NotFound"
                   /\ built' = built
             /\ id \notin DOMAIN built'.specials
             /\ (result.op = "remove_special" /\ result.id = id) => result'.tag = "NotFound"
      ]_vars

\* A special has been removed, removing it again was answered with NotFound,
\* and the meal still holds another special.
C22_Witness ==
    /\ result.op = "remove_special"
    /\ result.tag = "NotFound"
    /\ result.id \in IdSet(special_issued)
    /\ built # NoMeal
    /\ DOMAIN built.specials # {}

\* a < b as amounts of cents, limb by limb.
LessCents(a, b) == a.hi < b.hi \/ (a.hi = b.hi /\ a.lo < b.lo)

\* d is exactly a - b: b + d = a with no overflow.
IsDifference(a, b, d) ==
    LET lo == b.lo + d.lo
    IN  /\ d \in [hi : 0..(Base - 1), lo : 0..(Base - 1)]
        /\ a.lo = lo % Base
        /\ a.hi = b.hi + d.hi + (lo \div Base)

\* The step was builder.diff_price(p).
IsDiffPriceStep == result'.op = "diff_price" /\ Building

\* C23: builder.diff_price(p) with a running price of at least p makes the
\* running price exactly price - p; with a smaller running price it answers
\* NegativePriceBuilded(p - price) and with no running price
\* NegativePriceBuilded(p), in both cases leaving the builder as it was.  It
\* never panics, in either build, at each subtraction of a chain.
C23_DiffPrice ==
    [][IsDiffPriceStep =>
         LET p == result'.prices[1]
         IN  /\ result'.tag # "Panic"
             /\ (builder.price.some /\ ~ LessCents(builder.price.value, p)) =>
                   /\ result'.tag = "Ok"
                   /\ builder'.price.some
                   /\ IsDifference(builder.price.value, p, builder'.price.value)
                   /\ builder' = [builder EXCEPT !.price = builder'.price]
             /\ (builder.price.some /\ LessCents(builder.price.value, p)) =>
                   /\ result'.tag = "NegativePriceBuilded"
                   /\ IsDifference(p, builder.price.value, result'.money)
                   /\ builder' = builder
             /\ ~ builder.price.some =>
                   /\ result'.tag = "NegativePriceBuilded"
                   /\ result'.money = p
                   /\ builder' = builder
      ]_vars

\* A subtraction from a running price of at least one cent overran it: the
\* amount reported is less than the amount subtracted.
C23_Witness ==
    /\ result.op = "diff_price"
    /\ result.tag = "NegativePriceBuilded"
    /\ builder.price.some
    /\ LessCents(U32(0), builder.price.value)
    /\ LessCents(result.money, result.prices[1])
    /\ IsDifference(result.prices[1], builder.price.value, result.money)

\* The step was builder.specials_with_prices(descriptions, prices).
IsSpecialsWithPricesStep == result'.op = "specials_with_prices" /\ Building

\* C24: builder.specials_with_prices with lists of different lengths fails
\* with the variant naming the longer list and the absolute difference of the
\* lengths, and leaves the builder as it was: no special added, the running
\* price unchanged, no special id consumed.  With equal lengths it reports no
\* such error.
C24_LengthMismatch ==
    [][IsSpecialsWithPricesStep =>
         LET nd == Len(result'.descriptions)
             np == Len(result'.prices)
         IN  /\ nd > np =>
                   /\ result'.tag = "MoreSpecialsThanPrices"
                   /\ result'.count = nd - np
             /\ np > nd =>
                   /\ result'.tag = "MorePricesThanSpecials"
                   /\ result'.count = np - nd
             /\ nd # np =>
                   /\ builder' = builder
                   /\ builder'.specials = builder.specials
                   /\ builder'.price = builder.price
                   /\ builder'.special_factory = builder.special_factory
                   /\ special_issued' = special_issued
             /\ nd = np => result'.tag \in {"Ok", "Panic"}
      ]_vars

\* A builder holding specials and a price was handed two prices and no
\* description.
C24_Witness ==
    /\ result.op = "specials_with_prices"
    /\ result.tag = "MorePricesThanSpecials"
    /\ result.count = 2
    /\ Building
    /\ DOMAIN builder.specials # {}
    /\ builder.price.some

\* Every special of the map is stored under its own id.
KeyedById(specials) == \A k \in DOMAIN specials : Special_get_id(specials[k]) = k

\* The specials of the meal under construction or of the built meal.
CurrentSpecials == IF Building THEN builder.specials ELSE built.specials

\* C25: within one meal, over its builder and itself, no special id is
\* handed out twice (also not after a removal), every stored special is
\* stored under its own id, the stored ids are ids that were handed out, and
\* the id add_special returns was not handed out before.  The builder, which
\* removes nothing, stores every id handed out.
C25_SpecialIdsUnique ==
    /\ \A i, j \in DOMAIN special_issued : i # j => special_issued[i] # special_issued[j]
    /\ KeyedById(CurrentSpecials)
    /\ DOMAIN CurrentSpecials \subseteq IdSet(special_issued)
    /\ Building => DOMAIN builder.specials = IdSet(special_issued)
    /\ result.op = "add_special" =>
          /\ Special_get_id(result.special) = result.id
          /\ result.id = special_issued[Len(special_issued)]
          /\ \A i \in 1..(Len(special_issued) - 1) : special_issued[i] # result.id
          /\ result.id \in DOMAIN built.specials
          /\ built.specials[result.id] = result.special

\* The built meal got a special from its builder, lost one by a removal, and
\* add_special has then given it another: the removed id is not back.
C25_Witness ==
    /\ ~ Building
    /\ result.op = "add_special"
    /\ Len(special_issued) = 3
    /\ Cardinality(DOMAIN built.specials) = 2

\* special_with_price(descriptions[i], prices[i]) called for i = 1, 2, ...,
\* up to the first call that panics.
RECURSIVE SpecialWithPriceInOrder(_, _, _)
SpecialWithPriceInOrder(b, descriptions, prices) ==
    IF descriptions = <<>> THEN Outcome(FALSE, b)
    ELSE LET r == MealBuilder_special_with_price(b, Head(descriptions), Head(prices))
         IN  IF r.panicked THEN r
             ELSE SpecialWithPriceInOrder(r.builder, Tail(descriptions), Tail(prices))

\* special(d) followed by add_price(p); add_price is not reached by a
\* program that has panicked, and special does not panic.
SpecialThenAddPrice(b, d, p) == MealBuilder_add_price(MealBuilder_special(b, d), p)

\* The step ended as the calls with the outcome r end: in a panic or not,
\* with the builder they leave.
LeavesBuilder(r) ==
    /\ result'.tag = (IF r.panicked THEN "Panic" ELSE "Ok")
    /\ builder' = r.builder

\* The specials 0..n-1 of the descriptions, in their order.
SpecialsOf(descriptions) ==
    [k \in {U32(i - 1) : i \in DOMAIN descriptions} |->
        Special_new(k, descriptions[k.lo + 1])]

\* The running price in cents, 0 when there is none.
RunningCents(b) == IF b.price.some THEN NatOf(b.price.value) ELSE 0

\* C26: special_with_price(d, p) leaves the builder that special(d) followed
\* by add_price(p) leaves.  A specials_with_prices(ds, ps) with lists of equal
\* length leaves the builder that special_with_price(ds[i], ps[i]), called in
\* order, leaves; on a builder without specials the specials are then one per
\* description with the ids 0..n-1 in order, and a running price in the low
\* 2^16 cents has grown by the sum of ps.  The meal built has the specials
\* and the running price of its builder (0 when there is none).
C26_SugarEquivalences ==
    [][/\ (result'.op = "special_with_price" /\ Building) =>
             LeavesBuilder(SpecialThenAddPrice(builder, result'.descriptions[1],
                                               result'.prices[1]))
       /\ (IsSpecialsWithPricesStep
             /\ Len(result'.descriptions) = Len(result'.prices)) =>
             /\ LeavesBuilder(SpecialWithPriceInOrder(builder, result'.descriptions,
                                                     result'.prices))
             /\ (result'.tag = "Ok" /\ builder.special_factory = SpecialFactory_new) =>
                   builder'.specials = SpecialsOf(result'.descriptions)
             /\ (result'.tag = "Ok" /\ (builder.price.some => builder.price.value.hi = 0)) =>
                   /\ result'.prices # <<>> => builder'.price.some
                   /\ RunningCents(builder') = RunningCents(builder) +
                         NatSum([i \in DOMAIN result'.prices |-> NatOf(result'.prices[i])])
       /\ (result'.op = "meal" /\ result'.tag = "Ok" /\ Building) =>
             /\ built'.specials = builder.specials
             /\ built'.special_factory = builder.special_factory
             /\ built'.price = IF builder.price.some THEN builder.price.value ELSE U32(0)
      ]_vars

\* Two specials with their prices have been added in one call to a builder
\* that had a running price and no special.
C26_Witness ==
    /\ result.op = "specials_with_prices"
    /\ result.tag = "Ok"
    /\ Len(result.descriptions) = 2
    /\ Building
    /\ builder.specials = SpecialsOf(result.descriptions)
    /\ builder.price.some
    /\ builder.price.value.hi = 0
    /\ NatOf(builder.price.value) >
          NatSum([i \in DOMAIN result.prices |-> NatOf(result.prices[i])])

(***************************************************************************)
(* Claims about the participants and the reconciliation of an Order        *)
(***************************************************************************)
\* The step was order.add_user(u).
IsAddUserStep == result'.op = "add_user"

\* C27: a new Order has no participant, not even its manager.  After
\* order.add_user(u) the ledger of u is empty and owned by u (no meals, paid
\* 0, tip 0, not ready) whether u took part before or not; the other ledgers,
\* the manager and the status are as before; the number of participants has
\* grown by one if u did not take part and not at all if u did.
C27_AddUser ==
    /\ DOMAIN meals = {}
    /\ [][IsAddUserStep =>
            LET u == result'.user
            IN  /\ u \in DOMAIN meals'
                /\ meals'[u].owner = u
                /\ DOMAIN meals'[u].meals = {}
                /\ meals'[u].paid = U32(0)
                /\ meals'[u].tip = U32(0)
                /\ meals'[u].ready = FALSE
                /\ DOMAIN meals' = DOMAIN meals \cup {u}
                /\ \A v \in DOMAIN meals \ {u} : meals'[v] = meals[v]
                /\ manager' = manager
                /\ status' = status
                /\ Cardinality(DOMAIN meals') =
                      Cardinality(DOMAIN meals) + (IF u \in DOMAIN meals THEN 0 ELSE 1)
         ]_vars

\* Two meals have been ordered, and a participant who has just been added has
\* an empty ledger next to a participant whose ledger holds a meal and a
\* payment.
C27_Witness ==
    /\ result.op = "add_user"
    /\ Len(issued) = 2
    /\ DOMAIN meals = Users
    /\ DOMAIN meals[result.user].meals = {}
    /\ \E v \in Users \ {result.user} : DOMAIN meals[v].meals # {} /\ meals[v].paid # U32(0)

\* What all participants paid, and what they owe, in cents.
TotalPaid == NatSum([u \in DOMAIN meals |-> Paid(meals[u])])

TotalOwed == NatSum([u \in DOMAIN meals |-> Owed(meals[u])])

\* C28: whenever calculate_total_change returns Underpaid, the participants
\* together paid strictly less than they owe and the amount reported is
\* above zero; an order in which what was paid equals what is owed is not
\* reported as Underpaid.
C28_UnderpaidMeansShort ==
    (IsTotalChange /\ result.tag = "Underpaid") =>
        (TotalPaid < TotalOwed /\ NatOf(result.money) > 0)

\* C29: with P the sum of what the participants paid and O the sum of what
\* they owe (meal prices and tips), calculate_total_change returns a surplus
\* c, as Ok(c) or EnoughInTotal{c}, only if P >= O, and then c = P - O; it
\* returns Underpaid{s} only if O >= P, and then s = O - P.
C29_ReconciliationIdentity ==
    IsTotalChange =>
        /\ result.tag \in {"Ok", "EnoughInTotal", "Underpaid"}
        /\ result.tag \in {"Ok", "EnoughInTotal"} =>
              (TotalPaid >= TotalOwed /\ NatOf(result.money) = TotalPaid - TotalOwed)
        /\ result.tag = "Underpaid" =>
              (TotalOwed >= TotalPaid /\ NatOf(result.money) = TotalOwed - TotalPaid)

\* Both participants hold a meal, one paid too little and one left a tip,
\* and the surplus reported is what was paid above what is owed.
C29_Witness ==
    /\ IsTotalChange /\ result.tag = "EnoughInTotal"
    /\ \A u \in Users : HoldsMeals(u)
    /\ \E u \in Users : NatOf(meals[u].tip) > 0
    /\ TotalPaid > TotalOwed
    /\ NatOf(result.money) = TotalPaid - TotalOwed

\* C30: what Meals::calculate_total_price and calculate_change and
\* Order::calculate_total_price, calculate_total_tip and
\* calculate_total_change return (the variant, the amount and the paid_less
\* set, or the panic) is the same for every order in which the hash maps can
\* be traversed: it depends on the contents of the ledgers only.
C30_TraversalOrderIrrelevant ==
    /\ (result.op = "calculate_total_price" /\ result.user # NoUser) =>
          \A keys \in Traversals(DOMAIN meals[result.user].meals) :
              Meals_calculate_total_price(meals[result.user], keys) = result.money
    /\ result.op = "calculate_change" =>
          \A keys \in Traversals(DOMAIN meals[result.user].meals) :
              /\ Meals_calculate_change(meals[result.user], keys).tag = result.tag
              /\ Meals_calculate_change(meals[result.user], keys).money = result.money
    /\ (result.op = "calculate_total_price" /\ result.user = NoUser) =>
          \A visit \in Visits(meals) :
              Order_calculate_total_price(meals, visit) = result.money
    /\ result.op = "calculate_total_tip" =>
          \A visit \in Visits(meals) :
              Order_calculate_total_tip(meals, visit) = result.money
    /\ result.op = "calculate_total_change" =>
          \A visit \in Visits(meals) :
              /\ Order_calculate_total_change(meals, visit).tag = result.tag
              /\ Order_calculate_total_change(meals, visit).money = result.money
              /\ Order_calculate_total_change(meals, visit).paid_less = result.paid_less

\* Two ledgers that both paid too little were visited, and the result names
\* both owners.
C30_Witness ==
    /\ result.op = "calculate_total_change"
    /\ result.tag = "Underpaid"
    /\ Cardinality(DOMAIN meals) = 2
    /\ result.paid_less = Users
    /\ \E u \in Users : Cardinality(DOMAIN meals[u].meals) = 2
====
